---- MODULE Spec2Model ----
(***************************************************************************)
(* Asset data layer of the renderer: AssetDataManager (search-path         *)
(* registry, archive mounting, findAsset resolution), DdsFileParser        *)
(* (container header parse, data placement), DdsTextureData (memory        *)
(* mapping, also under concurrent calls), PackagedAssetData (blob cache),  *)
(* DxvkToneMapping::dispatch (history reset) and AssetReplacer (mod        *)
(* refresh, replacement states).                                           *)
(*                                                                         *)
(* Strings are sequences of one-character strings.  Integers of the parser *)
(* are little-endian sequences of base-256 digits so that the 32-bit and   *)
(* 64-bit arithmetic of the code keeps its width.                          *)
(***************************************************************************)
EXTENDS Integers, Sequences, FiniteSets, TLC

VARIABLES
  searchPaths,   \* AssetDataManager::m_searchPaths : priority -> sequence of normalized paths
  packageSets,   \* AssetDataManager::m_packageSets : priority -> sequence of (path, package set)
  addLog,        \* the normalized paths addSearchPath registered, in call order
  scanLog,       \* how often addSearchPath iterated each directory (std::filesystem::directory_iterator)
  rtxIo,         \* RtxIo::enabled()
  pkgAssets,     \* content of the archives on disk: archive -> relative paths it holds
  lastOp         \* the last manager call: its inputs and what it did

mgrVars == <<searchPaths, packageSets, addLog, scanLog, rtxIo, pkgAssets, lastOp>>

VARIABLES
  parser,        \* one DdsFileParser / DdsTextureData object: its parse state, fields and FILE handle
  placed         \* the last placement() query on it and its result

parserVars == <<parser, placed>>

VARIABLES
  dds,           \* the DdsTextureData instances: the file each was loaded from and its handle fields
  osCount,       \* per instance and kind, the OS handles it acquired and has not released
  doubleClose,   \* some handle was released that was not held
  ddsLast        \* the last call on a DdsTextureData instance: its inputs and what it did

ddsVars == <<dds, osCount, doubleClose, ddsLast>>

VARIABLES
  pad,           \* one PackagedAssetData instance: its asset descriptor, m_data and the reads made
  padLast        \* the last call on it: its inputs and what it did

padVars == <<pad, padLast>>

instVars == <<dds, osCount, doubleClose, ddsLast, pad, padLast>>

VARIABLES
  thr,           \* the threads inside DdsTextureData::data on one shared instance: position and locals
  shared,        \* that instance's m_hFile, m_hMapping, m_lpBaseAddress: whose handle each holds
  openHandles,   \* the handles on its file that are open in the process, by kind and opening thread
  overwritten,   \* a store of data() replaced a handle that was held
  serialized     \* the caller lets one thread at a time into data() / releaseSource()

raceVars == <<thr, shared, openHandles, overwritten, serialized>>

VARIABLES
  tone,          \* the DxvkToneMapping object: its resources and m_resetState
  toneLast       \* the last dispatch on it: its inputs and the passes it ran

toneVars == <<tone, toneLast>>

VARIABLES
  replacer,      \* the AssetReplacer object: m_modManager's mods and their states
  replLog        \* the calls the last AssetReplacer operation made on its mods and mod manager, in order

replVars == <<replacer, replLog>>

extVars == <<raceVars, toneVars, replVars>>

vars == <<searchPaths, packageSets, addLog, scanLog, rtxIo, pkgAssets, lastOp, parser, placed,
          dds, osCount, doubleClose, ddsLast, pad, padLast,
          thr, shared, openHandles, overwritten, serialized, tone, toneLast, replacer, replLog>>

\* the instances of DdsTextureData that are followed, and the kinds of OS handle one may hold:
\* the FILE* of the parser, the file HANDLE, the mapping HANDLE and the mapped view
Instances == {1, 2}
HandleKinds == {"stdio", "file", "mapping", "view"}

\* no DdsTextureData object exists
NoInstance ==
  [status |-> "none", file |-> "none", stdio |-> FALSE, hFile |-> FALSE, hMapping |-> FALSE,
   view |-> FALSE]

\* no PackagedAssetData object exists
NoAsset == [status |-> "none"]

\* the threads that call into one shared DdsTextureData instance
Threads == {1, 2}

\* a thread outside data(): no position, no local handles
ThreadIdle == [pc |-> "idle", hFile |-> FALSE, hMapping |-> FALSE, view |-> FALSE,
               sawNull |-> FALSE, result |-> "none", os |-> "none"]

\* HANDLE m_hFile{}; HANDLE m_hMapping{}; const uint8_t* m_lpBaseAddress{}; 0 stands for null,
\* otherwise the thread whose handle is stored
NoShared == [hFile |-> 0, hMapping |-> 0, view |-> 0]

\* no thread is inside the shared instance
RaceIdle ==
  /\ thr = [t \in Threads |-> ThreadIdle]
  /\ shared = NoShared
  /\ openHandles = {}
  /\ overwritten = FALSE
  /\ serialized = FALSE

\* no DxvkToneMapping object is followed
ToneIdle ==
  /\ tone = [status |-> "none"]
  /\ toneLast = [op |-> "none"]

\* no AssetReplacer object is followed
ReplIdle ==
  /\ replacer = [status |-> "none"]
  /\ replLog = << >>

\* the state of the objects of the later sections while another object is exercised
ExtIdle == RaceIdle /\ ToneIdle /\ ReplIdle

\* the state of the asset objects while only the manager or the parser is exercised
InstIdle ==
  /\ dds = [i \in Instances |-> NoInstance]
  /\ osCount = [i \in Instances |-> [k \in HandleKinds |-> 0]]
  /\ doubleClose = FALSE
  /\ ddsLast = [op |-> "none"]
  /\ pad = NoAsset
  /\ padLast = [op |-> "none"]

----------------------------------------------------------------------------
(* Characters and strings *)

LowerSeq == <<"a","b","c","d","e","f","g","h","i","j","k","l","m",
              "n","o","p","q","r","s","t","u","v","w","x","y","z">>
UpperSeq == <<"A","B","C","D","E","F","G","H","I","J","K","L","M",
              "N","O","P","Q","R","S","T","U","V","W","X","Y","Z">>

Chars == {LowerSeq[i] : i \in 1..26} \cup {UpperSeq[i] : i \in 1..26} \cup {".", "/", ":", "\\"}

IsUpper(c) == \E i \in 1..26 : UpperSeq[i] = c
IsLower(c) == \E i \in 1..26 : LowerSeq[i] = c
AlphaIdx(c) == CHOOSE i \in 1..26 : UpperSeq[i] = c \/ LowerSeq[i] = c

\* tolower, as a table over the characters in use
ToLowerTable == [c \in Chars |-> IF IsUpper(c) THEN LowerSeq[AlphaIdx(c)] ELSE c]
ToLowerChar(c) == ToLowerTable[c]

\* the character codes, which std::string's comparison orders by
CharCodeTable ==
  [c \in Chars |->
     IF IsUpper(c) THEN 64 + AlphaIdx(c)
     ELSE IF IsLower(c) THEN 96 + AlphaIdx(c)
     ELSE CASE c = "."  -> 46
            [] c = "/"  -> 47
            [] c = ":"  -> 58
            [] c = "\\" -> 92]
CharCode(c) == CharCodeTable[c]

IsLetterTable == [c \in Chars |-> IsUpper(c) \/ IsLower(c)]

\* std::for_each(..., c = tolower(c))
ToLowerStr(s) == [i \in 1..Len(s) |-> ToLowerChar(s[i])]

\* std::filesystem::path::make_preferred on Windows: '/' becomes '\'
MakePreferred(s) == [i \in 1..Len(s) |-> IF s[i] = "/" THEN "\\" ELSE s[i]]

IsSep(c) == c = "\\" \/ c = "/"

\* the process's current directory
Cwd == <<"c", ":", "\\", "m", "\\", "a", "\\">>

\* a path that starts with a drive and a root directory
IsAbsolutePath(s) ==
  /\ Len(s) >= 3
  /\ IsLetterTable[s[1]]
  /\ s[2] = ":"
  /\ IsSep(s[3])

\* std::filesystem::absolute: a relative path is resolved against the current directory
Absolute(s) == IF IsAbsolutePath(s) THEN s ELSE Cwd \o s

\* std::basic_string::operator< : lexicographic by character code
RECURSIVE StrLess(_, _)
StrLess(a, b) ==
  IF b = <<>> THEN FALSE
  ELSE IF a = <<>> THEN TRUE
  ELSE IF CharCode(Head(a)) # CharCode(Head(b)) THEN CharCode(Head(a)) < CharCode(Head(b))
  ELSE StrLess(Tail(a), Tail(b))

\* s.rfind(prefix, 0) == 0
StartsWith(s, prefix) ==
  /\ Len(prefix) <= Len(s)
  /\ SubSeq(s, 1, Len(prefix)) = prefix

\* s.substr(pos), defined for pos <= size
Substr(s, pos) == SubSeq(s, pos + 1, Len(s))

\* index of the last '.' of s, 0 when there is none (strrchr)
RECURSIVE LastDotFrom(_, _)
LastDotFrom(s, i) == IF i = 0 THEN 0 ELSE IF s[i] = "." THEN i ELSE LastDotFrom(s, i - 1)

LastDot(s) == LastDotFrom(s, Len(s))

RECURSIVE Flatten(_)
Flatten(ss) == IF ss = <<>> THEN <<>> ELSE Head(ss) \o Flatten(Tail(ss))

Reverse(s) == [i \in 1..Len(s) |-> s[Len(s) + 1 - i]]

----------------------------------------------------------------------------
(* The file system the manager runs against *)

DirM  == <<"c", ":", "\\", "m", "\\">>
DirMA == <<"c", ":", "\\", "m", "\\", "a", "\\">>

PkgP == <<"p", ".", "p", "k", "g">>
PkgQ == <<"q", ".", "r", "t", "x", "i", "o">>
PkgZ == <<"z", ".", "p", "k", "g">>
TxtR == <<"r", ".", "t", "x", "t">>
SubA == <<"a">>

\* the entries of a directory, by its normalized name; <<>>-less for a directory that does not exist
DirExists(dir) == dir \in {DirM, DirMA}

DirEntries(dir) ==
  IF dir = DirM THEN {PkgP, PkgQ, PkgZ, TxtR, SubA}
  ELSE IF dir = DirMA THEN {PkgP}
  ELSE {}

\* std::filesystem::exists(path) is true for a file too; directory_iterator(path) on a file
\* throws std::filesystem::filesystem_error
IsRegularFile(path) ==
  \E name \in DirEntries(DirM) \ {SubA} :
    ToLowerStr(MakePreferred(Absolute(path))) = DirM \o name

\* archive files whose AssetPackage::initialize() fails
CorruptArchives == {DirM \o PkgZ}

\* archive files that AssetPackage::initialize() accepts
ValidArchives == {DirM \o PkgP, DirM \o PkgQ, DirMA \o PkgP}

\* how the file system identifies a path: Windows names are case-insensitive and accept both separators
FsResolve(p) == ToLowerStr(MakePreferred(Absolute(p)))

FsResolveDir(p) ==
  LET n == FsResolve(p) IN
  IF n # <<>> /\ ~IsSep(n[Len(n)]) THEN Append(n, "\\") ELSE n

\* std::filesystem::path::extension of a file name
Extension(name) ==
  LET dot == LastDot(name) IN
  IF dot > 1 THEN SubSeq(name, dot, Len(name)) ELSE <<>>

ExtPkg   == <<".", "p", "k", "g">>
ExtRtxio == <<".", "r", "t", "x", "i", "o">>
ExtDds   == <<".", "d", "d", "s">>

\* directory_entry::path(): the iterated path joined with the entry's name
EntryPath(path, name) ==
  IF path # <<>> /\ IsSep(path[Len(path)]) THEN path \o name ELSE path \o <<"\\">> \o name

\* AssetPackage::initialize()
PackageInitialize(packagePath) == FsResolve(packagePath) \in ValidArchives

\* AssetPackage::findAsset(relativePath) != kNoAssetIdx, on the package that opened the archive
PackageFindAsset(assets, archive, relativePath) ==
  relativePath \in assets[archive]

----------------------------------------------------------------------------
(* AssetDataManager::addSearchPath *)

\* the priorities search paths are registered under
MaxPriority == 2
Priorities == 1..MaxPriority

\* the spellings addSearchPath is called with
SearchPathInputs ==
  { <<"c", ":", "\\", "m">>,
    <<"C", ":", "/", "M", "/">>,
    <<"C", ":", "\\", "m", "/", "A">>,
    <<"b">> }

\* the normalization with the tolower pass left out
NormalizePathKeepsCase(path) ==
  LET normalized == MakePreferred(Absolute(path)) IN
  IF normalized # <<>> /\ normalized[Len(normalized)] # "\\" /\ normalized[Len(normalized)] # "/"
  THEN Append(normalized, "\\")
  ELSE normalized

\* absolute, preferred separators, lower case, trailing separator
NormalizePath(path) ==
  LET normalized == ToLowerStr(MakePreferred(Absolute(path))) IN
  IF normalized # <<>> /\ normalized[Len(normalized)] # "\\" /\ normalized[Len(normalized)] # "/"
  THEN Append(normalized, "\\")
  ELSE normalized

\* the dedupe loop looking at the most recent path of each priority only
IsRegisteredLastOnly(paths, normalized) ==
  \E pr \in DOMAIN paths : paths[pr] # <<>> /\ paths[pr][Len(paths[pr])] = normalized

\* the dedupe loop: the normalized path is already listed under some priority
IsRegistered(paths, normalized) ==
  \E pr \in DOMAIN paths : \E i \in 1..Len(paths[pr]) : paths[pr][i] = normalized

\* map[key].push_back(value) on a std::map of vectors
MapPushBack(map, key, value) ==
  [k \in DOMAIN map \cup {key} |->
     IF k = key
     THEN Append(IF key \in DOMAIN map THEN map[key] ELSE <<>>, value)
     ELSE map[k]]

\* the elements of a finite set of strings in ascending order: the iteration order of a
\* std::map keyed by std::string
RECURSIVE AscendingStrs(_)
AscendingStrs(S) ==
  IF S = {} THEN <<>>
  ELSE LET m == CHOOSE x \in S : \A y \in S : ~StrLess(y, x)
       IN  <<m>> \o AscendingStrs(S \ {m})

\* the PackageSet built for a search path: packagePath -> package (the archive it opened)
\* for every .pkg/.rtxio entry that initializes, held in key order
MountPackages(path) ==
  LET keys == { EntryPath(path, name) :
                  name \in { n \in DirEntries(FsResolveDir(path)) :
                               /\ Extension(n) \in {ExtPkg, ExtRtxio}
                               /\ PackageInitialize(EntryPath(path, n)) } }
      order == AscendingStrs(keys)
  IN  [i \in 1..Len(order) |-> [packagePath |-> order[i], archive |-> FsResolve(order[i])]]

\* addSearchPath.  When path names a file, the directory_iterator of line 548 throws after
\* line 542 recorded the search path: the call ends there
AddSearchPath(priority, path) ==
  LET normalized == NormalizePath(path)
      exists == DirExists(FsResolveDir(path))
  IN
  IF IsRegistered(searchPaths, normalized)
  THEN /\ lastOp' = [op |-> "addSearchPath", priority |-> priority,
                     normalized |-> normalized, added |-> FALSE]
       /\ UNCHANGED <<searchPaths, packageSets, addLog, scanLog, rtxIo, pkgAssets, parser, placed, instVars, extVars>>
  ELSE /\ searchPaths' = MapPushBack(searchPaths, priority, normalized)
       /\ addLog' = Append(addLog, normalized)
       /\ IF rtxIo /\ IsRegularFile(path)
          THEN UNCHANGED <<packageSets, scanLog>>
          ELSE IF rtxIo
          THEN /\ packageSets' = MapPushBack(packageSets, priority,
                                   [path |-> normalized,
                                    packages |-> IF exists THEN MountPackages(path) ELSE << >>])
               /\ scanLog' = IF exists
                             THEN [scanLog EXCEPT ![FsResolveDir(path)] = @ + 1] ELSE scanLog
          ELSE UNCHANGED <<packageSets, scanLog>>
       /\ lastOp' = [op |-> "addSearchPath", priority |-> priority,
                     normalized |-> normalized, added |-> TRUE]
       /\ UNCHANGED <<rtxIo, pkgAssets, parser, placed, instVars, extVars>>

----------------------------------------------------------------------------
(* Fixed-width integers: little-endian sequences of base-256 digits *)

\* digits of size_t and uint64_t (64 bits)
SizeTDigits == 8
\* digits of long, int and uint32_t (32 bits: the LLP64 data model of the Windows build)
LongDigits == 4

\* the n low digits of a natural number x
RECURSIVE Word(_, _)
Word(x, n) == IF n = 0 THEN <<>> ELSE <<x % 256>> \o Word(x \div 256, n - 1)

RECURSIVE AddCarry(_, _, _)
AddCarry(a, b, c) ==
  IF a = <<>> THEN <<>>
  ELSE LET s == Head(a) + Head(b) + c
       IN  <<s % 256>> \o AddCarry(Tail(a), Tail(b), s \div 256)

\* a + b modulo 256^Len(a), for words of equal length
WAdd(a, b) == AddCarry(a, b, 0)

RECURSIVE MulDigit(_, _, _)
MulDigit(a, d, c) ==
  IF a = <<>> THEN <<>>
  ELSE LET s == Head(a) * d + c
       IN  <<s % 256>> \o MulDigit(Tail(a), d, s \div 256)

\* a * b modulo 256^Len(a)
RECURSIVE WMul(_, _)
WMul(a, b) ==
  IF b = <<>> \/ a = <<>> THEN [i \in 1..Len(a) |-> 0]
  ELSE WAdd(MulDigit(a, Head(b), 0),
            <<0>> \o SubSeq(WMul(a, Tail(b)), 1, Len(a) - 1))

\* unsigned a < b, for words of equal length
RECURSIVE WLess(_, _)
WLess(a, b) ==
  IF a = <<>> THEN FALSE
  ELSE IF a[Len(a)] # b[Len(b)] THEN a[Len(a)] < b[Len(b)]
  ELSE WLess(SubSeq(a, 1, Len(a) - 1), SubSeq(b, 1, Len(b) - 1))

\* conversion to a narrower type keeps the low digits
Truncate(a, n) == SubSeq(a, 1, n)

\* conversion of an unsigned value to a wider type
ZeroExtend(a, n) == [i \in 1..n |-> IF i <= Len(a) THEN a[i] ELSE 0]

\* conversion of a signed value to a wider type
SignExtend(a, n) ==
  [i \in 1..n |-> IF i <= Len(a) THEN a[i] ELSE IF a[Len(a)] >= 128 THEN 255 ELSE 0]

----------------------------------------------------------------------------
(* DdsFileParser *)

\* sizeof(FOURCC_DDS), sizeof(dds_header), sizeof(dds_header10)
SizeofMagic == 4
SizeofHeader == 124
SizeofHeader10 == 20

\* capacity of m_levelSizes
MaxLevels == 16

\* m_levels
HeaderLevels(h) == IF h.mipFlag THEN h.mipMapLevels ELSE 1

\* m_layers: header10 is value-initialized, its ArraySize is 0 without an extended header
HeaderLayers(h) == IF h.dx10 /\ h.arraySize > 1 THEN h.arraySize ELSE 1

\* m_faces
HeaderFaces(h) == IF h.cubemap THEN h.cubeFaces ELSE 1

\* m_dataOffset: the read position after the headers
HeaderDataOffset(h) ==
  IF h.dx10 THEN SizeofMagic + SizeofHeader + SizeofHeader10 ELSE SizeofMagic + SizeofHeader

Max(a, b) == IF a >= b THEN a ELSE b

\* levelSize of one mip level, as size_t: widthBlocks * heightBlocks is a uint32_t product
LevelSize(h, level) ==
  LET levelWidth   == Max(h.width \div (2 ^ level), 1)
      levelHeight  == Max(h.height \div (2 ^ level), 1)
      widthBlocks  == Max(1, (levelWidth + h.blockExtentX - 1) \div h.blockExtentX)
      heightBlocks == Max(1, (levelHeight + h.blockExtentY - 1) \div h.blockExtentY)
      blocks       == WMul(Word(widthBlocks, LongDigits), Word(heightBlocks, LongDigits))
  IN  WMul(ZeroExtend(blocks, SizeTDigits), Word(h.blockSize, SizeTDigits))

\* m_levelSizes[0 .. m_levels)
LevelSizes(h) == [i \in 1..HeaderLevels(h) |-> LevelSize(h, i - 1)]

RECURSIVE WSum(_, _)
WSum(ws, n) == IF ws = <<>> THEN Word(0, n) ELSE WAdd(Head(ws), WSum(Tail(ws), n))

\* m_sizeOfAllLevels after the loop
SizeOfAllLevels(h) == WSum(LevelSizes(h), SizeTDigits)

\* m_sizeOfAllLevels * (m_layers * m_faces) + m_dataOffset > m_fileSize, evaluated in size_t
PayloadExceedsFile(h, fileSize) ==
  LET count == SignExtend(Word(HeaderLayers(h) * HeaderFaces(h), LongDigits), SizeTDigits)
      total == WAdd(WMul(SizeOfAllLevels(h), count), Word(HeaderDataOffset(h), SizeTDigits))
  IN  WLess(Word(fileSize, SizeTDigits), total)

NoFields ==
  [fileSize |-> 0, dataOffset |-> 0, levels |-> 0, layers |-> 0, faces |-> 0,
   levelSizes |-> <<>>, sizeOfAllLevels |-> Word(0, SizeTDigits)]

\* DdsFileParser::parse on a fresh parser.  fopenResult is the outcome of std::fopen.
\* ret: "true", "false", or "throw" (DxvkError out of openHandle);
\* fileOpen: m_file != nullptr when parse returns.
ParseOutcome(file, fopenResult) ==
  LET h == file.header
      parsed == [fileSize |-> file.size, dataOffset |-> HeaderDataOffset(h),
                 levels |-> HeaderLevels(h), layers |-> HeaderLayers(h), faces |-> HeaderFaces(h),
                 levelSizes |-> LevelSizes(h), sizeOfAllLevels |-> SizeOfAllLevels(h)]
  IN
  IF fopenResult = "emfile" THEN
    [ret |-> "throw", fileOpen |-> FALSE, fields |-> NoFields]
  ELSE IF fopenResult # "ok" THEN
    [ret |-> "false", fileOpen |-> FALSE, fields |-> NoFields]
  ELSE IF file.size < SizeofMagic + SizeofHeader THEN
    [ret |-> "false", fileOpen |-> TRUE, fields |-> [NoFields EXCEPT !.fileSize = file.size]]
  ELSE IF ~file.magicOk THEN
    [ret |-> "false", fileOpen |-> TRUE, fields |-> [NoFields EXCEPT !.fileSize = file.size]]
  ELSE IF h.dx10 /\ file.size < SizeofMagic + SizeofHeader + SizeofHeader10 THEN
    [ret |-> "false", fileOpen |-> TRUE, fields |-> [NoFields EXCEPT !.fileSize = file.size]]
  ELSE IF PayloadExceedsFile(h, file.size) THEN
    [ret |-> "false", fileOpen |-> TRUE, fields |-> parsed]
  ELSE
    [ret |-> "true", fileOpen |-> FALSE, fields |-> parsed]

\* DdsFileParser::getDataPlacement: offset is a long, size a size_t
GetDataPlacement(f, layer, face, level) ==
  LET linearFace == Word(layer * f.faces + face, LongDigits)
      start == WAdd(Word(f.dataOffset, SizeTDigits),
                    WMul(SignExtend(linearFace, SizeTDigits), f.sizeOfAllLevels))
      sum   == WAdd(start, WSum(SubSeq(f.levelSizes, 1, level), SizeTDigits))
  IN  [offset |-> Truncate(sum, LongDigits), size |-> f.levelSizes[level + 1]]

\* DdsTextureData::placement: offset64 = offset
Placement(f, layer, face, level) ==
  LET p == GetDataPlacement(f, layer, face, level)
  IN  [offset |-> SignExtend(p.offset, SizeTDigits), size |-> p.size]


----------------------------------------------------------------------------
(* The container files the parser is run on *)

Rgba8   == [blockSize |-> 4,  blockExtentX |-> 1, blockExtentY |-> 1]
Bc1     == [blockSize |-> 8,  blockExtentX |-> 4, blockExtentY |-> 4]
Rgba32f == [blockSize |-> 16, blockExtentX |-> 1, blockExtentY |-> 1]

MkHeader(width, height, mipFlag, mipMapLevels, dx10, arraySize, cubemap, cubeFaces, fmt) ==
  [width |-> width, height |-> height, mipFlag |-> mipFlag, mipMapLevels |-> mipMapLevels,
   dx10 |-> dx10, arraySize |-> arraySize, cubemap |-> cubemap, cubeFaces |-> cubeFaces,
   blockSize |-> fmt.blockSize, blockExtentX |-> fmt.blockExtentX, blockExtentY |-> fmt.blockExtentY]

SmallHeaders ==
  { MkHeader(w, ht, mip[1], mip[2], arr[1], arr[2], cube[1], cube[2], fmt) :
      w \in {1, 16}, ht \in {1, 4},
      mip \in {<<FALSE, 7>>, <<TRUE, 1>>, <<TRUE, 3>>},
      arr \in {<<FALSE, 0>>, <<TRUE, 0>>, <<TRUE, 2>>},
      cube \in {<<FALSE, 0>>, <<TRUE, 6>>},
      fmt \in {Rgba8, Bc1} }

\* the byte count of one level and of a whole small file, in unbounded arithmetic
PlainLevelSize(h, level) ==
  LET lw == Max(h.width \div (2 ^ level), 1)
      lh == Max(h.height \div (2 ^ level), 1)
  IN  Max(1, (lw + h.blockExtentX - 1) \div h.blockExtentX)
        * Max(1, (lh + h.blockExtentY - 1) \div h.blockExtentY) * h.blockSize

RECURSIVE PlainLevelsBelow(_, _)
PlainLevelsBelow(h, level) ==
  IF level = 0 THEN 0 ELSE PlainLevelSize(h, level - 1) + PlainLevelsBelow(h, level - 1)

PlainFileSize(h) ==
  HeaderDataOffset(h) + HeaderLayers(h) * HeaderFaces(h) * PlainLevelsBelow(h, HeaderLevels(h))

\* a 32768 x 32768 RGBA32F array texture that declares 2^30 layers
HugeArrayHeader ==
  MkHeader(32768, 32768, FALSE, 0, TRUE, 1073741824, FALSE, 0, Rgba32f)

MkFile(size, magicOk, header) ==
  [exists |-> TRUE, size |-> size, magicOk |-> magicOk, header |-> header]

ParserFiles ==
  { MkFile(PlainFileSize(h) + d, TRUE, h) : h \in SmallHeaders, d \in {0 - 1, 0, 9} }
    \cup { MkFile(sz, TRUE, h) : sz \in {10, 130}, h \in {x \in SmallHeaders : x.width = 1 /\ x.height = 1} }
    \cup { MkFile(PlainFileSize(h), FALSE, h) : h \in {x \in SmallHeaders : x.width = 1 /\ x.height = 1} }
    \cup { MkFile(SizeofMagic + SizeofHeader + SizeofHeader10, TRUE, HugeArrayHeader) }

\* the layer indices placement is queried with
MaxProbeLayer == 2
ProbeLayers == 0..MaxProbeLayer

----------------------------------------------------------------------------
(* One parser object *)

NewParser ==
  [status |-> "new", fopen |-> "none", fileOpen |-> FALSE, file |-> <<>>, fields |-> NoFields]
NotPlaced == [queried |-> FALSE]

\* parse(filename) on the fresh object
Parse(file, fopenResult) ==
  /\ parser.status = "new"
  /\ LET o == ParseOutcome(file, fopenResult)
     IN  parser' = [status |-> o.ret, fopen |-> fopenResult, fileOpen |-> o.fileOpen,
                    file |-> file, fields |-> o.fields]
  /\ UNCHANGED <<placed, searchPaths, packageSets, addLog, scanLog, rtxIo, pkgAssets, lastOp, instVars, extVars>>

\* a 1 x 1 RGBA8 texture whose header declares one mip level more than m_levelSizes holds
DeepHeader == MkHeader(1, 1, TRUE, MaxLevels + 1, FALSE, 0, FALSE, 0, Rgba8)

DeepFiles == { MkFile(PlainFileSize(DeepHeader) + d, TRUE, DeepHeader) : d \in {0, 9} }

\* the indices level of the statements m_levelSizes[level] = levelSize the loop executes
LoopStores(h) == 0..(HeaderLevels(h) - 1)

\* parse(filename) on the fresh object for a header with m_levels > m_levelSizes.size().
\* The only guard is the assert of line 175: a build with assertions aborts there, a build
\* with NDEBUG runs the loop, whose stores past the array are undefined behaviour
ParseManyLevels(file, asserts) ==
  /\ parser.status = "new"
  /\ HeaderLevels(file.header) > MaxLevels
  /\ parser' = [status |-> IF asserts THEN "abort" ELSE "overrun",
                fopen |-> "ok", fileOpen |-> TRUE, file |-> file,
                fields |-> [NoFields EXCEPT !.fileSize = file.size,
                                            !.dataOffset = HeaderDataOffset(file.header),
                                            !.levels = HeaderLevels(file.header)],
                stored |-> IF asserts THEN {} ELSE LoopStores(file.header)]
  /\ UNCHANGED <<placed, searchPaths, packageSets, addLog, scanLog, rtxIo, pkgAssets, lastOp, instVars, extVars>>

\* placement(layer, face, level) on a parsed object, within the declared bounds
QueryPlacement(layer, face, level) ==
  /\ parser.status = "true"
  /\ layer < parser.fields.layers
  /\ face < parser.fields.faces
  /\ level < parser.fields.levels
  /\ LET p == Placement(parser.fields, layer, face, level)
     IN  placed' = [queried |-> TRUE, layer |-> layer, face |-> face, level |-> level,
                    offset |-> p.offset, size |-> p.size]
  /\ UNCHANGED <<parser, searchPaths, packageSets, addLog, scanLog, rtxIo, pkgAssets, lastOp, instVars, extVars>>

\* closeHandle()
CloseHandle ==
  /\ parser.fileOpen
  /\ parser' = [parser EXCEPT !.fileOpen = FALSE]
  /\ UNCHANGED <<placed, searchPaths, packageSets, addLog, scanLog, rtxIo, pkgAssets, lastOp, instVars, extVars>>

\* the object is destroyed (its destructor closes the handle) and a new one is constructed
Recreate ==
  /\ parser.status # "new"
  /\ parser' = NewParser
  /\ placed' = NotPlaced
  /\ UNCHANGED <<searchPaths, packageSets, addLog, scanLog, rtxIo, pkgAssets, lastOp, instVars, extVars>>

ParserInit ==
  /\ parser = NewParser
  /\ placed = NotPlaced
  /\ InstIdle
  /\ ExtIdle
  /\ searchPaths = << >>
  /\ packageSets = << >>
  /\ addLog = << >>
  /\ scanLog = [d \in {DirM, DirMA} |-> 0]
  /\ rtxIo = TRUE
  /\ pkgAssets = [a \in ValidArchives |-> {}]
  /\ lastOp = [op |-> "none"]

ParserNext ==
  \/ \E file \in ParserFiles, fopenResult \in {"ok", "emfile", "enoent"} : Parse(file, fopenResult)
  \/ \E file \in DeepFiles, asserts \in BOOLEAN : ParseManyLevels(file, asserts)
  \/ \E layer \in ProbeLayers, face \in 0..5, level \in 0..(MaxLevels - 1) :
       QueryPlacement(layer, face, level)
  \/ CloseHandle
  \/ Recreate

ParserSpec == ParserInit /\ [][ParserNext]_vars


----------------------------------------------------------------------------
(* AssetDataManager::findAsset *)

RelX  == <<"x", ".", "d", "d", "s">>
RelAX == <<"a", "\\", "x", ".", "d", "d", "s">>

\* the file names findAsset is called with.  The first three name the file c:\m\a\x.dds or
\* c:\m\x.dds with a .dds extension, the others carry another extension or none
DdsNames ==
  { <<"c", ":", "\\", "m", "\\", "a", "\\", "x", ".", "d", "d", "s">>,
    <<"C", ":", "/", "M", "/", "x", ".", "D", "D", "S">>,
    <<"x", ".", "d", "d", "s">> }

OtherNames ==
  { <<"c", ":", "\\", "m", "\\", "a", "\\", "x", ".", "p", "n", "g">>,
    <<"c", ":", "\\", "m", ".", "d", "d", "s", "\\", "x">>,
    <<"x">> }

FileInputs == DdsNames \cup OtherNames

\* a 4 x 4 RGBA8 texture without mip chain
GoodHeader == MkHeader(4, 4, FALSE, 0, FALSE, 0, FALSE, 0, Rgba8)
NoFile == [exists |-> FALSE]

\* what is on disk at c:\m\a\x.dds when findAsset runs: the file, what std::fopen
\* answers, and whether gli::load decodes it
LooseFile ==
  [absent   |-> [file |-> NoFile, fopen |-> "enoent", gli |-> FALSE],
   good     |-> [file |-> MkFile(PlainFileSize(GoodHeader), TRUE, GoodHeader), fopen |-> "ok", gli |-> TRUE],
   emfile   |-> [file |-> MkFile(PlainFileSize(GoodHeader), TRUE, GoodHeader), fopen |-> "emfile", gli |-> TRUE],
   badmagic |-> [file |-> MkFile(PlainFileSize(GoodHeader), FALSE, GoodHeader), fopen |-> "ok", gli |-> TRUE]]

LooseFileStates == DOMAIN LooseFile

\* isDDS: strrchr(filename, '.') and _stricmp(extension, ".dds") == 0
IsDDS(filename) ==
  LET dot == LastDot(filename) IN
  /\ dot > 0
  /\ ToLowerStr(SubSeq(filename, dot, Len(filename))) = ExtDds

\* the two severities exchanged
RejectSeveritySwapped(suppress) == IF suppress THEN "err" ELSE "warn"

\* Logger::warn or Logger::err of the rejection, by suppressAssetLoadingErrors()
RejectSeverity(suppress) == IF suppress THEN "warn" ELSE "err"

\* the early return left out
ReturnsPartialNever(loaded) == FALSE

\* if (dds->load(filename)) return dds;
ReturnsPartial(loaded) == loaded

\* the elements of a finite set of integers, greatest first (reverse iteration of a std::map)
RECURSIVE DescendingInts(_)
DescendingInts(S) ==
  IF S = {} THEN <<>>
  ELSE LET m == CHOOSE x \in S : \A y \in S : y <= x
       IN  <<m>> \o DescendingInts(S \ {m})

\* forward iteration, begin() .. end(), of the three containers
PriorityOrderForward(sets) == Reverse(DescendingInts(DOMAIN sets))
EntryOrderForward(entries) == entries
PackageOrderForward(packages) == packages

\* m_packageSets.rbegin() .. rend(): the priorities in the order they are searched
PriorityOrder(sets) == DescendingInts(DOMAIN sets)

\* entries.rbegin() .. rend(): the search paths of one priority in the order they are searched
EntryOrder(entries) == Reverse(entries)

\* packages.rbegin() .. rend(): the archives of one search path in the order they are queried
PackageOrder(packages) == Reverse(packages)

\* the lookups one search path contributes: none without a strict prefix match, else one
\* per archive with relativePath = filename.substr(basePath.size()), which throws
\* std::out_of_range when basePath is longer than filename
EntryLookups(priority, entry, filename, filenameLower) ==
  IF Len(filenameLower) > Len(entry.path) /\ StartsWith(filenameLower, entry.path)
  THEN IF Len(entry.path) > Len(filename)
       THEN << [kind |-> "throw", priority |-> priority, base |-> entry.path] >>
       ELSE LET order == PackageOrder(entry.packages)
            IN  [i \in 1..Len(order) |->
                   [kind |-> "query", priority |-> priority, base |-> entry.path,
                    package |-> order[i].packagePath, archive |-> order[i].archive,
                    relativePath |-> Substr(filename, Len(entry.path))]]
  ELSE <<>>

\* filenameLower: absolute, preferred separators, lower case
FilenameLowerTable == [f \in FileInputs |-> ToLowerStr(MakePreferred(Absolute(f)))]
FilenameLower(filename) == FilenameLowerTable[filename]

\* every lookup of the three nested loops, in execution order
ArchiveLookups(sets, filename) ==
  LET filenameLower == FilenameLower(filename)
      prios == PriorityOrder(sets)
  IN  Flatten([i \in 1..Len(prios) |->
         LET entries == EntryOrder(sets[prios[i]])
         IN  Flatten([j \in 1..Len(entries) |->
                EntryLookups(prios[i], entries[j], filename, filenameLower)])])

\* a lookup that ends the loops: the archive holds the asset, or substr threw
StopsAt(assets, lookup) ==
  \/ lookup.kind = "throw"
  \/ lookup.kind = "query" /\ PackageFindAsset(assets, lookup.archive, lookup.relativePath)

\* compression() of a PackagedAssetData: read from the package's base blob descriptor
PackageCompression(archive) ==
  IF Extension(archive) = ExtRtxio THEN "GDeflate" ELSE "None"

\* DdsTextureData::load: parse(filename) on the file the name resolves to
DdsLoadTable == [l \in LooseFileStates |-> ParseOutcome(LooseFile[l].file, LooseFile[l].fopen)]
DdsLoad(loose) == DdsLoadTable[loose]

\* a fallback that never decodes
GliLoadNever(loose) == [loaded |-> FALSE, compression |-> "None"]

\* GliTextureData::load
GliLoad(loose) == [loaded |-> LooseFile[loose].gli, compression |-> "None"]

\* the whole of findAsset
FindAssetOutcome(sets, assets, io, filename, usePartial, suppress, loose) ==
  LET base == [op |-> "findAsset", filename |-> filename, usePartial |-> usePartial,
               suppress |-> suppress, loose |-> loose,
               partialTried |-> FALSE, partialLoaded |-> FALSE, archiveReached |-> FALSE,
               queried |-> <<>>, gliTried |-> FALSE, gliLoaded |-> FALSE,
               log |-> <<>>, result |-> "null", from |-> <<>>, compression |-> "None"]
      load == DdsLoad(loose)
      afterPartial == IF usePartial
                      THEN [base EXCEPT !.partialTried = TRUE, !.partialLoaded = (load.ret = "true")]
                      ELSE base
      lookups == IF io /\ DOMAIN sets # {} THEN ArchiveLookups(sets, filename) ELSE <<>>
      stops == {i \in 1..Len(lookups) : StopsAt(assets, lookups[i])}
      stop == IF stops = {} THEN 0 ELSE CHOOSE i \in stops : \A j \in stops : i <= j
      made == IF stop = 0 THEN lookups
              ELSE IF lookups[stop].kind = "throw" THEN SubSeq(lookups, 1, stop - 1)
              ELSE SubSeq(lookups, 1, stop)
      afterArchive == [afterPartial EXCEPT !.archiveReached = (io /\ DOMAIN sets # {}),
                                           !.queried = made]
      gli == GliLoad(loose)
  IN
  IF ~IsDDS(filename) THEN
    [base EXCEPT !.log = <<RejectSeverity(suppress)>>]
  ELSE IF usePartial /\ load.ret = "throw" THEN
    [afterPartial EXCEPT !.result = "throw"]
  ELSE IF usePartial /\ ReturnsPartial(load.ret = "true") THEN
    [afterPartial EXCEPT !.result = "dds"]
  ELSE IF stop # 0 /\ lookups[stop].kind = "throw" THEN
    [afterArchive EXCEPT !.result = "throw"]
  ELSE IF stop # 0 THEN
    [afterArchive EXCEPT !.result = "pkg", !.from = lookups[stop],
                         !.compression = PackageCompression(lookups[stop].archive)]
  ELSE IF gli.loaded THEN
    [afterArchive EXCEPT !.gliTried = TRUE, !.gliLoaded = TRUE, !.log = <<"warn">>,
                         !.result = "gli", !.compression = gli.compression]
  ELSE
    [afterArchive EXCEPT !.gliTried = TRUE]

\* the calls made: every file state and loader setting for the .dds names; both severities
\* and loader settings, with a loadable file on disk, for the other names
FindInputs ==
  (DdsNames \X BOOLEAN \X {FALSE} \X LooseFileStates)
    \cup (OtherNames \X BOOLEAN \X BOOLEAN \X {"good"})

FindAsset(filename, usePartial, suppress, loose) ==
  /\ lastOp' = FindAssetOutcome(packageSets, pkgAssets, rtxIo, filename, usePartial, suppress, loose)
  /\ UNCHANGED <<searchPaths, packageSets, addLog, scanLog, rtxIo, pkgAssets, parser, placed, instVars, extVars>>

----------------------------------------------------------------------------
(* The manager's specification *)

Init ==
  /\ searchPaths = << >>
  /\ packageSets = << >>
  /\ addLog = << >>
  /\ scanLog = [d \in {DirM, DirMA} |-> 0]
  /\ rtxIo \in BOOLEAN
  /\ pkgAssets \in { f \in [ValidArchives -> {{}, {RelX}, {RelAX}}] :
                        /\ f[DirM \o PkgP] # {RelX}
                        /\ f[DirM \o PkgQ] # {RelX}
                        /\ f[DirMA \o PkgP] # {RelAX}
                        /\ ~rtxIo => \A a \in ValidArchives : f[a] = {} }
  /\ lastOp = [op |-> "none"]
  /\ parser = NewParser
  /\ placed = NotPlaced
  /\ InstIdle
  /\ ExtIdle

Next ==
  \/ \E priority \in Priorities, path \in SearchPathInputs : AddSearchPath(priority, path)
  \/ \E in \in FindInputs : FindAsset(in[1], in[2], in[3], in[4])

Spec == Init /\ [][Next]_vars


----------------------------------------------------------------------------
(* Claims about AssetDataManager *)

Found == lastOp.op = "findAsset"

\* the positions (priority, index) of a registry
PositionsOf(map) == UNION { {<<pr, i>> : i \in 1..Len(map[pr])} : pr \in DOMAIN map }

\* base is a strict prefix of the normalized form of filename
IsStrictPrefixOf(base, filename) ==
  LET full == FsResolve(filename) IN
  /\ Len(base) < Len(full)
  /\ \A i \in 1..Len(base) : base[i] = full[i]

\* every mounted archive, with the priority and search path it is mounted under
Mounted ==
  UNION { { [priority |-> pos[1], base |-> packageSets[pos[1]][pos[2]].path,
             package |-> packageSets[pos[1]][pos[2]].packages[k].packagePath,
             archive |-> packageSets[pos[1]][pos[2]].packages[k].archive] :
              k \in 1..Len(packageSets[pos[1]][pos[2]].packages) } :
          pos \in PositionsOf(packageSets) }

\* the mounted archives under a search path matching filename that contain the asset:
\* their findAsset finds the part of filename that follows the search path
Holding(filename) ==
  { h \in Mounted :
      /\ IsStrictPrefixOf(h.base, filename)
      /\ Len(h.base) <= Len(filename)
      /\ SubSeq(filename, Len(h.base) + 1, Len(filename)) \in pkgAssets[h.archive] }

\* the archive findAsset returned the asset from
ReturnedFrom ==
  [priority |-> lastOp.from.priority, base |-> lastOp.from.base,
   package |-> lastOp.from.package, archive |-> lastOp.from.archive]

\* the position of a registered path in the order of the addSearchPath calls
AddedAt(base) == CHOOSE i \in 1..Len(addLog) : addLog[i] = base

\* filename ends in ".dds", whatever the case of the letters
EndsWithDds(filename) ==
  /\ Len(filename) >= 4
  /\ filename[Len(filename) - 3] = "."
  /\ \A i \in 0..2 : filename[Len(filename) - i] \in {"d", "D", "s", "S"}
  /\ filename[Len(filename)] \in {"s", "S"}
  /\ filename[Len(filename) - 1] \in {"d", "D"}
  /\ filename[Len(filename) - 2] \in {"d", "D"}

\* the partial loader accepts the file on disk: it opens, carries the magic and is as long
\* as its header says
LooseParses(loose) ==
  LET l == LooseFile[loose] IN
  /\ l.fopen = "ok"
  /\ l.file.exists
  /\ l.file.magicOk
  /\ l.file.size >= PlainFileSize(l.file.header)

\* C1: when the archive lookup is reached and archives under search paths of different
\* priorities contain the asset, findAsset returns a package-backed asset (unless it raised),
\* and it comes from an archive containing the asset under the highest of those priorities.
HigherPriorityArchiveWins ==
  (Found /\ lastOp.archiveReached) =>
    \A h1, h2 \in Holding(lastOp.filename) :
      h1.priority < h2.priority =>
        /\ lastOp.result \in {"pkg", "throw"}
        /\ lastOp.result = "pkg" =>
             /\ ReturnedFrom \in Holding(lastOp.filename)
             /\ ReturnedFrom.priority >= h2.priority

HigherPriorityArchiveWinsWitness ==
  /\ Found
  /\ lastOp.archiveReached
  /\ lastOp.result = "pkg"
  /\ \E h \in Holding(lastOp.filename) : h.priority < ReturnedFrom.priority
  /\ \E h \in Holding(lastOp.filename) :
       h.priority < ReturnedFrom.priority /\ AddedAt(h.base) > AddedAt(ReturnedFrom.base)

\* C2: when search paths registered under one priority match the file name and each holds
\* an archive containing the asset, the asset findAsset returns does not come from a path of
\* that priority that was added before another of them: the path added last wins.
LaterAddedPathWins ==
  (Found /\ lastOp.result = "pkg") =>
    \A h \in Holding(lastOp.filename) :
      h.priority = ReturnedFrom.priority => AddedAt(h.base) <= AddedAt(ReturnedFrom.base)

LaterAddedPathWinsWitness ==
  /\ Found
  /\ lastOp.result = "pkg"
  /\ \E h \in Holding(lastOp.filename) :
       /\ h.priority = ReturnedFrom.priority
       /\ AddedAt(h.base) < AddedAt(ReturnedFrom.base)

\* C3: when several archives mounted under the matching search path contain the asset, the
\* asset is returned from the one whose package path is lexicographically greatest.
GreatestPackagePathWins ==
  (Found /\ lastOp.result = "pkg") =>
    \A h \in Holding(lastOp.filename) :
      (h.priority = ReturnedFrom.priority /\ h.base = ReturnedFrom.base) =>
        ~StrLess(ReturnedFrom.package, h.package)

GreatestPackagePathWinsWitness ==
  /\ Found
  /\ lastOp.result = "pkg"
  /\ \E h \in Holding(lastOp.filename) :
       /\ h.priority = ReturnedFrom.priority
       /\ h.base = ReturnedFrom.base
       /\ StrLess(h.package, ReturnedFrom.package)

\* C4: no directory is registered twice across all priorities of the search-path registry,
\* and no directory is scanned for archives twice: a call whose path normalizes to a
\* registered one adds no entry and scans nothing.
SearchPathsUnique ==
  /\ \A p1, p2 \in PositionsOf(searchPaths) :
       p1 # p2 => FsResolveDir(searchPaths[p1[1]][p1[2]]) # FsResolveDir(searchPaths[p2[1]][p2[2]])
  /\ \A d \in DOMAIN scanLog : scanLog[d] <= 1
  /\ Cardinality(PositionsOf(searchPaths)) = Len(addLog)
  /\ Cardinality(PositionsOf(packageSets)) <= Len(addLog)

SearchPathsUniqueWitness ==
  /\ lastOp.op = "addSearchPath"
  /\ ~lastOp.added
  /\ \E pr \in DOMAIN searchPaths :
       /\ pr # lastOp.priority
       /\ \E i \in 1..Len(searchPaths[pr]) : searchPaths[pr][i] = lastOp.normalized
  /\ lastOp.normalized \in DOMAIN scanLog
  /\ scanLog[lastOp.normalized] = 1

\* C5: when the partial DDS loader is enabled and loads the file, findAsset returns the
\* memory-mapped variant, queries no mounted archive and does not invoke the generic decoder.
PartialLoadReturnsFirst ==
  (Found /\ EndsWithDds(lastOp.filename) /\ lastOp.usePartial /\ LooseParses(lastOp.loose)) =>
    /\ lastOp.result = "dds"
    /\ lastOp.queried = <<>>
    /\ ~lastOp.archiveReached
    /\ ~lastOp.gliTried

PartialLoadReturnsFirstWitness ==
  /\ Found
  /\ lastOp.usePartial
  /\ LooseParses(lastOp.loose)
  /\ lastOp.result = "dds"
  /\ rtxIo
  /\ Holding(lastOp.filename) # {}

\* C6: a file name that does not end in .dds (in any case) is rejected: findAsset returns
\* null, logs exactly one entry (a warning under error suppression, an error otherwise) and
\* attempts none of the partial loader, the archive lookup and the generic decoder.
UnsupportedExtensionRejected ==
  (Found /\ ~EndsWithDds(lastOp.filename)) =>
    /\ lastOp.result = "null"
    /\ Len(lastOp.log) = 1
    /\ lastOp.log[1] = (IF lastOp.suppress THEN "warn" ELSE "err")
    /\ ~lastOp.partialTried
    /\ ~lastOp.archiveReached
    /\ lastOp.queried = <<>>
    /\ ~lastOp.gliTried

UnsupportedExtensionRejectedWitness ==
  /\ Found
  /\ ~EndsWithDds(lastOp.filename)
  /\ lastOp.suppress
  /\ lastOp.usePartial
  /\ LooseParses(lastOp.loose)
  /\ lastOp.result = "null"
  /\ DOMAIN packageSets # {}

----------------------------------------------------------------------------
(* Claims about DdsFileParser and DdsTextureData::placement *)

\* digits wide enough to hold every sum and product below without wrap-around
ExactDigits == 2 * SizeTDigits

X(x) == Word(x, ExactDigits)
XExt(w) == ZeroExtend(w, ExactDigits)

\* unsigned a <= b
WLeq(a, b) == ~WLess(b, a)

\* parse has returned (or raised) on the current object
Parsed == parser.status # "new"

\* dataOffset + (layer*faces + face) * sizeOfAllLevels + sum of levelSizes[0..level), exactly
ExactOffset(f, layer, face, level) ==
  WAdd(WAdd(X(f.dataOffset), WMul(X(layer * f.faces + face), XExt(f.sizeOfAllLevels))),
       WSum([i \in 1..level |-> XExt(f.levelSizes[i])], ExactDigits))

\* the in-range (layer, face, level) triples among the probed ones
InRange(f) ==
  { t \in ProbeLayers \X (0..5) \X (0..(MaxLevels - 1)) :
      t[1] < f.layers /\ t[2] < f.faces /\ t[3] < f.levels }

\* the byte range [lo, hi) placement gives for a triple
RangeOf(f, t) ==
  LET p == Placement(f, t[1], t[2], t[3])
  IN  [lo |-> XExt(p.offset), hi |-> WAdd(XExt(p.offset), XExt(p.size))]

Disjoint(r1, r2) == WLeq(r1.hi, r2.lo) \/ WLeq(r2.hi, r1.lo)

\* C8: after a successful parse, placement of an in-range triple returns the offset
\* dataOffset + (layer*faces + face)*sizeOfAllLevels + sum of levelSizes[0..level), neither
\* wrapped nor truncated, and the size levelSizes[level].
PlacementMatchesFormula ==
  (parser.status = "true" /\ placed.queried) =>
    /\ XExt(placed.offset) = ExactOffset(parser.fields, placed.layer, placed.face, placed.level)
    /\ placed.size = parser.fields.levelSizes[placed.level + 1]

\* C9: for a file parse accepted, the range placement gives lies within
\* [dataOffset, fileSize), overlaps the range of no other in-range triple, and the ranges of
\* the levels of one (layer, face) are contiguous and span exactly sizeOfAllLevels bytes.
PlacementRangesPartitionData ==
  (parser.status = "true" /\ placed.queried) =>
    LET f    == parser.fields
        t    == <<placed.layer, placed.face, placed.level>>
        r    == RangeOf(f, t)
        low  == RangeOf(f, <<placed.layer, placed.face, 0>>)
        high == RangeOf(f, <<placed.layer, placed.face, f.levels - 1>>)
    IN  /\ r.lo = XExt(placed.offset)
        /\ WLeq(X(f.dataOffset), r.lo)
        /\ WLeq(r.hi, X(f.fileSize))
        /\ \A u \in InRange(f) \ {t} : Disjoint(r, RangeOf(f, u))
        /\ placed.level > 0 =>
             r.lo = RangeOf(f, <<placed.layer, placed.face, placed.level - 1>>).hi
        /\ high.hi = WAdd(low.lo, XExt(f.sizeOfAllLevels))

\* sizeOfAllLevels * (layers * faces) + dataOffset exceeds the file size
PayloadLargerThanFile(file) ==
  LET h == file.header
  IN  WLess(X(file.size),
            WAdd(WMul(XExt(SizeOfAllLevels(h)), X(HeaderLayers(h) * HeaderFaces(h))),
                 X(HeaderDataOffset(h))))

\* C10: on a file that opens, parse returns false when the file is shorter than magic plus
\* primary header, when the magic does not match, when the extended header is signalled and
\* the file is too short for it, and when sizeOfAllLevels*(layers*faces)+dataOffset exceeds
\* the file size; and whenever parse has returned false the file handle is closed.
ParseRejectsAndClosesHandle ==
  /\ (Parsed /\ parser.fopen = "ok") =>
       LET file == parser.file
       IN  ( \/ file.size < SizeofMagic + SizeofHeader
             \/ ~file.magicOk
             \/ file.header.dx10 /\ file.size < SizeofMagic + SizeofHeader + SizeofHeader10
             \/ PayloadLargerThanFile(file) ) => parser.status = "false"
  /\ parser.status = "false" => ~parser.fileOpen


----------------------------------------------------------------------------
(* DdsTextureData: the memory-mapped variant *)

\* a 4 x 4 RGBA8 array texture of two layers with two mip levels
ArrayHeader == MkHeader(4, 4, TRUE, 2, TRUE, 2, FALSE, 0, Rgba8)

\* the container files instances are loaded from: a well-formed array texture, the array
\* texture that declares 2^30 layers, and a file shorter than its headers
MappedFile ==
  [a |-> MkFile(PlainFileSize(ArrayHeader), TRUE, ArrayHeader),
   b |-> MkFile(SizeofMagic + SizeofHeader + SizeofHeader10, TRUE, HugeArrayHeader),
   s |-> MkFile(10, TRUE, GoodHeader)]

MappedFileNames == DOMAIN MappedFile

\* the fields parse leaves in an instance loaded from a file
MappedFieldsTable == [n \in MappedFileNames |-> ParseOutcome(MappedFile[n], "ok").fields]
MappedFields(n) == MappedFieldsTable[n]

\* some instance holds a HANDLE from CreateFile on the file: it was opened with dwShareMode 0,
\* so every further open of the file fails with a sharing violation while it is held
ExclusivelyHeld(handles, counts, file) ==
  \E j \in Instances : handles[j].file = file /\ counts[j]["file"] > 0

\* some handle on the file is open, so that CreateFile with dwShareMode 0 fails
OpenedByAnyone(handles, counts, file) ==
  \E j \in Instances :
    handles[j].file = file /\ (counts[j]["file"] > 0 \/ counts[j]["stdio"] > 0)

\* a CloseHandle that closes nothing
ReleaseNothing(cnt, kind) == cnt

\* the OS hands out a handle / takes one back
Acquire(cnt, kind) == [cnt EXCEPT ![kind] = @ + 1]

\* CloseHandle / UnmapViewOfFile / fclose: the OS takes the handle back
Release(cnt, kind) == [cnt EXCEPT ![kind] = IF @ > 0 THEN @ - 1 ELSE 0]

\* a release of a handle that is not held
ReleasesUnheld(cnt, kind) == cnt[kind] = 0

\* m_fileSize < dataOffset + dataSize, evaluated in size_t
RegionCheck(f, layer, level) ==
  LET p == GetDataPlacement(f, layer, 0, level)
  IN  WLess(SignExtend(Word(f.fileSize, LongDigits), SizeTDigits),
            WAdd(SignExtend(p.offset, SizeTDigits), p.size))

RegionCheckTable ==
  [n \in MappedFileNames |->
     [layer \in ProbeLayers |->
        [level \in 0..(Max(MappedFields(n).levels, 1) - 1) |->
           MappedFields(n).levels > 0 /\ RegionCheck(MappedFields(n), layer, level)]]]

\* the region check left out
RegionExceedsFileNever(file, layer, level) == FALSE

\* the check of data() on an instance loaded from file
RegionExceedsFile(file, layer, level) == RegionCheckTable[file][layer][level]

\* parse on each file, by the answer of std::fopen
LoadTable ==
  [n \in MappedFileNames |->
     [r \in {"ok", "emfile", "eacces"} |-> ParseOutcome(MappedFile[n], r)]]

\* the open sequence run on every call
NeedsOpenAlways(d) == TRUE

\* if (!m_hFile)
NeedsOpen(d) == ~d.hFile

\* the outcomes of the open sequence the OS may produce: every call succeeds, CreateFile fails
\* because the process is out of handles, CreateFileMapping fails, MapViewOfFile fails
OsOutcomes == {"ok", "emfile", "mapfail", "viewfail"}

\* DdsTextureData::data(layer, level) on instance state d with handle counts cnt.
\* os: what the OS answers to the open sequence; "sharing" when the file is open elsewhere
DataOutcome(d, cnt, layer, level, os) ==
  IF RegionExceedsFile(d.file, layer, level) THEN
    [d |-> d, cnt |-> cnt, result |-> "null", opened |-> FALSE, log |-> "corrupted"]
  ELSE IF NeedsOpen(d) THEN
    IF os \in {"emfile", "sharing"} THEN
      [d |-> d, cnt |-> cnt, result |-> "null", opened |-> TRUE, log |-> "CreateFile"]
    ELSE IF os = "mapfail" THEN
      [d |-> d, cnt |-> Release(Acquire(cnt, "file"), "file"),
       result |-> "null", opened |-> TRUE, log |-> "CreateFileMapping"]
    ELSE IF os = "viewfail" THEN
      [d |-> d,
       cnt |-> Release(Release(Acquire(Acquire(cnt, "file"), "mapping"), "mapping"), "file"),
       result |-> "null", opened |-> TRUE, log |-> "MapViewOfFile"]
    ELSE
      [d |-> [d EXCEPT !.hFile = TRUE, !.hMapping = TRUE, !.view = TRUE],
       cnt |-> Acquire(Acquire(Acquire(cnt, "file"), "mapping"), "view"),
       result |-> "ptr", opened |-> TRUE, log |-> "none"]
  ELSE
    [d |-> d, cnt |-> cnt, result |-> "ptr", opened |-> FALSE, log |-> "none"]

\* the handle fields left as they were
KeptHandles(d) == d

\* m_hFile = nullptr; m_hMapping = nullptr; m_lpBaseAddress = nullptr;
ClearedHandles(d) == [d EXCEPT !.hFile = FALSE, !.hMapping = FALSE, !.view = FALSE]

\* DdsTextureData::releaseSource, with DdsFileParser::closeHandle
ReleaseOutcome(d, cnt) ==
  LET mapped == d.hFile
      d1     == IF mapped THEN ClearedHandles(d) ELSE d
      c1     == IF mapped THEN Release(Release(Release(cnt, "view"), "mapping"), "file") ELSE cnt
      bad1   == mapped /\ \E k \in {"view", "mapping", "file"} : ReleasesUnheld(cnt, k)
      bad2   == d.stdio /\ ReleasesUnheld(cnt, "stdio")
  IN  [d   |-> [d1 EXCEPT !.stdio = FALSE],
       cnt |-> IF d.stdio THEN Release(c1, "stdio") ELSE c1,
       bad |-> bad1 \/ bad2]

\* placement(layer, 0, level) of every loadable file, from the fields parse left
PlacementTable ==
  [n \in MappedFileNames |->
     [layer \in ProbeLayers |->
        [level \in 0..(Max(MappedFields(n).levels, 1) - 1) |->
           IF MappedFields(n).levels > 0
           THEN Placement(MappedFields(n), layer, 0, level)
           ELSE [offset |-> Word(0, SizeTDigits), size |-> Word(0, SizeTDigits)]]]]

\* a placement that answers only while the mapping is open
PlacementWhenMapped(d, layer, level) ==
  IF d.hFile THEN PlacementTable[d.file][layer][level]
  ELSE [offset |-> Word(0, SizeTDigits), size |-> Word(0, SizeTDigits)]

\* DdsTextureData::placement(layer, 0, level) on instance state d: getDataPlacement on the
\* parsed fields, the handle fields are not read
PlacementOf(d, layer, level) == PlacementTable[d.file][layer][level]

\* the record of a call on instance i
\* prev: the call made just before it, when that was on the same instance
DdsCall(op, i, layer, level, os, result, opened) ==
  [op |-> op, inst |-> i, layer |-> layer, level |-> level, os |-> os,
   placement |-> IF op = "placement" THEN PlacementOf(dds[i], layer, level) ELSE "none",
   before |-> dds[i], cntBefore |-> osCount[i], result |-> result, opened |-> opened,
   prev |-> IF ddsLast.op # "none" /\ ddsLast.inst = i
            THEN [op |-> ddsLast.op, result |-> ddsLast.result, opened |-> ddsLast.opened,
                  held |-> ddsLast.before.hFile]
            ELSE [op |-> "none", result |-> "none", opened |-> FALSE, held |-> FALSE]]

\* new DdsTextureData; load(filename): the header parse.  An instance whose load failed is
\* only destroyed; a load that raises leaves no object behind
DdsLoadInstance(i, file, fopenIn) ==
  /\ dds[i].status = "none"
  /\ osCount[i] = [k \in HandleKinds |-> 0]
  /\ LET fopenResult == IF fopenIn = "ok" /\ ExclusivelyHeld(dds, osCount, file)
                        THEN "eacces" ELSE fopenIn
         o == LoadTable[file][fopenResult]
     IN  /\ dds' = IF o.ret = "throw" THEN dds
                   ELSE [dds EXCEPT ![i] =
                           [status |-> IF o.ret = "true" THEN "loaded" ELSE "failed",
                            file |-> file, stdio |-> o.fileOpen,
                            hFile |-> FALSE, hMapping |-> FALSE, view |-> FALSE]]
         /\ osCount' = IF o.fileOpen THEN [osCount EXCEPT ![i] = Acquire(@, "stdio")]
                       ELSE osCount
         /\ ddsLast' = DdsCall("load", i, 0, 0, fopenResult, o.ret, FALSE)
  /\ UNCHANGED <<doubleClose, mgrVars, parserVars, padVars, extVars>>

\* data(layer, level)
DdsData(i, layer, level, osIn) ==
  /\ dds[i].status = "loaded"
  /\ level < MappedFields(dds[i].file).levels
  /\ LET os == IF osIn = "ok" /\ OpenedByAnyone(dds, osCount, dds[i].file)
               THEN "sharing" ELSE osIn
         o  == DataOutcome(dds[i], osCount[i], layer, level, os)
     IN  /\ dds' = [dds EXCEPT ![i] = o.d]
         /\ osCount' = [osCount EXCEPT ![i] = o.cnt]
         /\ ddsLast' = DdsCall("data", i, layer, level, os, o.result, o.opened)
  /\ UNCHANGED <<doubleClose, mgrVars, parserVars, padVars, extVars>>

\* placement(layer, face, level): reads the parsed fields only
DdsPlacement(i, layer, level) ==
  /\ dds[i].status = "loaded"
  /\ layer < MappedFields(dds[i].file).layers
  /\ level < MappedFields(dds[i].file).levels
  /\ ddsLast' = DdsCall("placement", i, layer, level, "none", "ok", FALSE)
  /\ UNCHANGED <<dds, osCount, doubleClose, mgrVars, parserVars, padVars, extVars>>

\* evictCache(layer, level): empty
DdsEvictCache(i, layer, level) ==
  /\ dds[i].status = "loaded"
  /\ layer < MappedFields(dds[i].file).layers
  /\ level < MappedFields(dds[i].file).levels
  /\ ddsLast' = DdsCall("evictCache", i, layer, level, "none", "ok", FALSE)
  /\ UNCHANGED <<dds, osCount, doubleClose, mgrVars, parserVars, padVars, extVars>>

\* releaseSource()
DdsReleaseSource(i) ==
  /\ dds[i].status = "loaded"
  /\ LET o == ReleaseOutcome(dds[i], osCount[i])
     IN  /\ dds' = [dds EXCEPT ![i] = o.d]
         /\ osCount' = [osCount EXCEPT ![i] = o.cnt]
         /\ doubleClose' = (doubleClose \/ o.bad)
  /\ ddsLast' = DdsCall("releaseSource", i, 0, 0, "none", "ok", FALSE)
  /\ UNCHANGED <<mgrVars, parserVars, padVars, extVars>>

\* ~DdsTextureData: releaseSource(), then ~DdsFileParser: closeHandle()
DdsDestroy(i) ==
  /\ dds[i].status \in {"loaded", "failed"}
  /\ LET o == ReleaseOutcome(dds[i], osCount[i])
     IN  /\ dds' = [dds EXCEPT ![i] = NoInstance]
         /\ osCount' = [osCount EXCEPT ![i] = o.cnt]
         /\ doubleClose' = (doubleClose \/ o.bad)
  /\ ddsLast' = DdsCall("destroy", i, 0, 0, "none", "ok", FALSE)
  /\ UNCHANGED <<mgrVars, parserVars, padVars, extVars>>

MapInit ==
  /\ searchPaths = << >>
  /\ packageSets = << >>
  /\ addLog = << >>
  /\ scanLog = [d \in {DirM, DirMA} |-> 0]
  /\ rtxIo = TRUE
  /\ pkgAssets = [a \in ValidArchives |-> {}]
  /\ lastOp = [op |-> "none"]
  /\ parser = NewParser
  /\ placed = NotPlaced
  /\ InstIdle
  /\ ExtIdle

MapNext ==
  \/ \E i \in Instances, file \in MappedFileNames, fopenIn \in {"ok", "emfile"} :
       DdsLoadInstance(i, file, fopenIn)
  \/ \E i \in Instances, layer \in ProbeLayers, level \in 0..(MaxLevels - 1), os \in OsOutcomes :
       DdsData(i, layer, level, os)
  \/ \E i \in Instances, layer \in ProbeLayers, level \in 0..(MaxLevels - 1) :
       DdsPlacement(i, layer, level)
  \/ \E i \in Instances, layer \in ProbeLayers, level \in 0..(MaxLevels - 1) :
       DdsEvictCache(i, layer, level)
  \/ \E i \in Instances : DdsReleaseSource(i)
  \/ \E i \in Instances : DdsDestroy(i)

MapSpec == MapInit /\ [][MapNext]_vars


----------------------------------------------------------------------------
(* Claims about DdsTextureData *)

NoHandles == [k \in HandleKinds |-> 0]

\* the instance the last call was made on
LastInst == dds[ddsLast.inst]

\* the region of (layer, level) ends beyond the file, as data() computes it
ComputedRegionExceeds(file, layer, level) ==
  RegionCheck(MappedFields(file), layer, level)

\* C11: releaseSource may be called with the mapping open or not: afterwards the instance
\* holds no file handle, no mapping and no view; a second consecutive call changes nothing;
\* no handle is ever released twice; and after destruction every handle the instance
\* acquired has been released.
ReleaseSourceReleasesOnce ==
  /\ ~doubleClose
  /\ \A i \in Instances : dds[i].status = "none" => osCount[i] = NoHandles
  /\ ddsLast.op = "releaseSource" =>
       /\ ~LastInst.hFile /\ ~LastInst.hMapping /\ ~LastInst.view /\ ~LastInst.stdio
       /\ osCount[ddsLast.inst] = NoHandles
       /\ ddsLast.prev.op = "releaseSource" =>
            LastInst = ddsLast.before /\ osCount[ddsLast.inst] = ddsLast.cntBefore

ReleaseSourceReleasesOnceWitness ==
  /\ ddsLast.op = "releaseSource"
  /\ ddsLast.prev.op = "releaseSource"
  /\ ddsLast.prev.held
  /\ osCount[ddsLast.inst] = NoHandles

\* C12: an instance holds at most one file handle, one mapping and one view, and the three
\* fields are all set or all null; data() runs the open sequence exactly when none is held
\* and the region passes the check, and otherwise reuses the mapping; data() after
\* releaseSource opens the mapping again.
AtMostOneMapping ==
  /\ \A i \in Instances :
       /\ dds[i].hFile = dds[i].hMapping
       /\ dds[i].hMapping = dds[i].view
       /\ \A k \in {"file", "mapping", "view"} :
            osCount[i][k] = (IF dds[i].hFile THEN 1 ELSE 0)
  /\ ddsLast.op = "data" =>
       /\ ddsLast.opened <=>
            (~ddsLast.before.hFile
               /\ ~ComputedRegionExceeds(ddsLast.before.file, ddsLast.layer, ddsLast.level))
       /\ ddsLast.before.hFile =>
            LastInst = ddsLast.before /\ osCount[ddsLast.inst] = ddsLast.cntBefore
       /\ (ddsLast.prev.op = "releaseSource" /\ ddsLast.opened /\ ddsLast.os = "ok") =>
            ddsLast.result = "ptr" /\ LastInst.hFile

AtMostOneMappingWitness ==
  /\ ddsLast.op = "data"
  /\ ddsLast.prev.op = "releaseSource"
  /\ ddsLast.prev.held
  /\ ddsLast.opened
  /\ ddsLast.result = "ptr"
  /\ LastInst.view

\* C13: a data() call whose computed region end exceeds the file size returns null without
\* raising and leaves handle, mapping and view as they were; a data() call for a valid
\* region that follows it succeeds.
CorruptRegionReturnsNull ==
  ddsLast.op = "data" =>
    /\ ComputedRegionExceeds(ddsLast.before.file, ddsLast.layer, ddsLast.level) =>
         /\ ddsLast.result = "null"
         /\ ~ddsLast.opened
         /\ LastInst = ddsLast.before
         /\ osCount[ddsLast.inst] = ddsLast.cntBefore
    /\ ( /\ ddsLast.prev.op = "data" /\ ddsLast.prev.result = "null" /\ ~ddsLast.prev.opened
         /\ ~ComputedRegionExceeds(ddsLast.before.file, ddsLast.layer, ddsLast.level)
         /\ ddsLast.os = "ok" ) => ddsLast.result = "ptr"

CorruptRegionReturnsNullWitness ==
  /\ ddsLast.op = "data"
  /\ ddsLast.prev.op = "data"
  /\ ddsLast.prev.result = "null"
  /\ ~ddsLast.prev.opened
  /\ ddsLast.prev.held
  /\ ddsLast.result = "ptr"
  /\ LastInst.view


----------------------------------------------------------------------------
(* PackagedAssetData: the package-backed variant *)

\* kMipLevelsToCache
MipLevelsToCache == 5

\* the asset descriptors of the package: a two-layer image with one tail mip, an image with
\* numMips 8 and numTailMips 3, a buffer, and a cube map
AssetDescs ==
  [img  |-> [type |-> "IMAGE_2D",   numMips |-> 3, numTailMips |-> 1, baseBlobIdx |-> 10,
             tailBlobIdx |-> 20],
   big  |-> [type |-> "IMAGE_2D",   numMips |-> 8, numTailMips |-> 3, baseBlobIdx |-> 100,
             tailBlobIdx |-> 115],
   buf  |-> [type |-> "BUFFER",     numMips |-> 0, numTailMips |-> 0, baseBlobIdx |-> 5,
             tailBlobIdx |-> 5],
   cube |-> [type |-> "IMAGE_CUBE", numMips |-> 2, numTailMips |-> 1, baseBlobIdx |-> 30,
             tailBlobIdx |-> 60]]

AssetNames == DOMAIN AssetDescs

\* the data blobs of the package that have a descriptor, and those marked compressed
PresentBlobs == ({5, 10, 11, 12, 20, 22} \cup (100..130) \cup (30..72)) \ {13}
CompressedBlobs == {11, 102}

\* AssetPackage::getDataBlobDesc(blobIdx): nullptr for an index without descriptor
GetDataBlobDesc(blobIdx) ==
  IF blobIdx \in PresentBlobs
  THEN [found |-> TRUE, compression |-> IF blobIdx \in CompressedBlobs THEN 1 ELSE 0]
  ELSE [found |-> FALSE, compression |-> 0]

\* AssetPackage::readDataBlob: the bytes of a blob, told apart by its index
BlobBytes(blobIdx) == <<"bytes", blobIdx>>

\* a value as uint32_t
U32(x) == Word(x, LongDigits)

\* a uint32_t as a number, when it is below 2^16; the indices above carry no descriptor
WordValue(w) == IF w[3] = 0 /\ w[4] = 0 THEN w[1] + 256 * w[2] ELSE 0 - 1

\* PackagedAssetData::getBlobIndex, in uint32_t arithmetic
BlobIndexWord(desc, layer, face, level) ==
  IF desc.type = "BUFFER" THEN U32(desc.baseBlobIdx)
  ELSE LET l            == IF desc.type = "IMAGE_CUBE" THEN layer * 6 + face ELSE layer
           numLooseMips == U32(desc.numMips - desc.numTailMips)
           baseBlobIdx  == IF ~WLess(U32(level), numLooseMips)
                           THEN U32(desc.tailBlobIdx)
                           ELSE WAdd(U32(level), U32(desc.baseBlobIdx))
       IN  WAdd(baseBlobIdx, WMul(U32(l), numLooseMips))

\* the layers, faces and levels the instance is called with
PadLayers == 0..MaxProbeLayer
PadFaces == {0, 5}
PadLevels == 0..7

\* the layers and levels data and evictCache are called with
PadDataLayers == 0..1
PadDataLevels == 0..2

BlobIndexTable ==
  [n \in AssetNames |->
     [layer \in PadLayers |-> [face \in PadFaces |-> [level \in PadLevels |->
        WordValue(BlobIndexWord(AssetDescs[n], layer, face, level))]]]]

GetBlobIndex(n, layer, face, level) == BlobIndexTable[n][layer][face][level]

\* std::clamp<uint16_t>(v, lo, hi) as the library computes it when it does not check lo <= hi
Clamp(v, lo, hi) == IF v < lo THEN lo ELSE IF hi < v THEN hi ELSE v

Min(a, b) == IF a <= b THEN a ELSE b

\* the fields of m_info DdsTextureData::load sets from the parsed header
DdsInfo(f) ==
  [mipLevels |-> f.levels, mininumLevelsToUpload |-> Min(MipLevelsToCache, f.levels)]

\* the fields of m_info GliTextureData::load sets from a decoded texture of that many levels
GliInfo(levels) ==
  [mipLevels |-> levels, mininumLevelsToUpload |-> Min(MipLevelsToCache, levels)]

\* the fields of m_info the constructor sets from the descriptor
PackagedInfo(desc) ==
  [mipLevels |-> desc.numMips,
   mininumLevelsToUpload |-> Clamp(desc.numTailMips, 1, desc.numMips)]

\* erase that keeps the key with an empty vector
EraseKeepsKey(cache, blobIdx) == cache

\* the whole cache dropped
EraseAll(cache, blobIdx) == {}

\* m_data.erase(blobIdx)
Erase(cache, blobIdx) == cache \ {blobIdx}

\* m_data.find(blobIdx) != m_data.end()
CacheHit(cache, blobIdx) == blobIdx \in cache

\* the compression flag ignored
IsCompressedNever(blobDesc) == FALSE

\* blobDesc->compression != 0
IsCompressed(blobDesc) == blobDesc.compression # 0

\* PackagedAssetData::data(layer, level) on cache m_data (its keys) of an instance of asset n
PadDataOutcome(n, cache, layer, level) ==
  LET blobIdx  == GetBlobIndex(n, layer, 0, level)
      blobDesc == GetDataBlobDesc(blobIdx)
  IN  IF CacheHit(cache, blobIdx) THEN
        [blobIdx |-> blobIdx, cache |-> cache, read |-> FALSE, result |-> BlobBytes(blobIdx)]
      ELSE IF blobDesc.found THEN
        IF IsCompressed(blobDesc) THEN
          [blobIdx |-> blobIdx, cache |-> cache, read |-> FALSE, result |-> <<"throw">>]
        ELSE
          [blobIdx |-> blobIdx, cache |-> cache \cup {blobIdx}, read |-> TRUE,
           result |-> BlobBytes(blobIdx)]
      ELSE
        [blobIdx |-> blobIdx, cache |-> cache, read |-> FALSE, result |-> <<"null">>]

\* the record of a call, with the blob index of the call made before it
PadCall(op, layer, face, level, blobIdx, result, read) ==
  [op |-> op, layer |-> layer, face |-> face, level |-> level, blobIdx |-> blobIdx,
   cacheBefore |-> IF pad.status = "live" THEN pad.cache ELSE {},
   result |-> result, read |-> read,
   prev |-> IF padLast.op \in {"data", "evictCache"}
            THEN [op |-> padLast.op, blobIdx |-> padLast.blobIdx]
            ELSE [op |-> "none", blobIdx |-> 0]]

\* new PackagedAssetData(package, assetIdx).  checked: the library verifies the precondition
\* lo <= hi of std::clamp and aborts the process when it fails
PadConstruct(n, checked) ==
  /\ pad.status = "none"
  /\ LET desc    == AssetDescs[n]
         aborted == checked /\ desc.numMips < 1
     IN  /\ pad' = IF aborted THEN pad
                   ELSE [status |-> "live", asset |-> n, info |-> PackagedInfo(desc),
                         cache |-> {}, fresh |-> {}, readCount |-> 0]
         /\ padLast' = PadCall("construct", 0, 0, 0, 0,
                               IF aborted THEN <<"abort">> ELSE <<"ok">>, FALSE)
  /\ UNCHANGED <<ddsVars, mgrVars, parserVars, extVars>>

\* data(layer, level).  fresh: the blobs read since their last eviction;
\* readCount: the reads of the blob of this call since its last eviction
PadData(layer, level) ==
  /\ pad.status = "live"
  /\ LET o == PadDataOutcome(pad.asset, pad.cache, layer, level)
     IN  /\ pad' = [pad EXCEPT !.cache = o.cache,
                               !.fresh = IF o.read THEN @ \cup {o.blobIdx} ELSE @,
                               !.readCount = IF ~o.read THEN 0
                                             ELSE IF o.blobIdx \in pad.fresh THEN 2 ELSE 1]
         /\ padLast' = PadCall("data", layer, 0, level, o.blobIdx, o.result, o.read)
  /\ UNCHANGED <<ddsVars, mgrVars, parserVars, extVars>>

\* evictCache(layer, level)
PadEvictCache(layer, level) ==
  /\ pad.status = "live"
  /\ LET blobIdx == GetBlobIndex(pad.asset, layer, 0, level)
     IN  /\ pad' = [pad EXCEPT !.cache = Erase(@, blobIdx), !.fresh = @ \ {blobIdx},
                               !.readCount = 0]
         /\ padLast' = PadCall("evictCache", layer, 0, level, blobIdx, <<"ok">>, FALSE)
  /\ UNCHANGED <<ddsVars, mgrVars, parserVars, extVars>>

\* placement(layer, face, level): the blob index and whether the blob has a descriptor
PadPlacement(layer, face, level) ==
  /\ pad.status = "live"
  /\ LET blobIdx == GetBlobIndex(pad.asset, layer, face, level)
     IN  padLast' = PadCall("placement", layer, face, level, blobIdx,
                            IF GetDataBlobDesc(blobIdx).found THEN <<"ok">> ELSE <<"assert">>,
                            FALSE)
  /\ UNCHANGED <<pad, ddsVars, mgrVars, parserVars, extVars>>

\* the last reference is dropped
PadDestroy ==
  /\ pad.status = "live"
  /\ pad' = NoAsset
  /\ padLast' = PadCall("destroy", 0, 0, 0, 0, <<"ok">>, FALSE)
  /\ UNCHANGED <<ddsVars, mgrVars, parserVars, extVars>>

PkgInit == MapInit

PkgNext ==
  \/ \E n \in AssetNames, checked \in BOOLEAN : PadConstruct(n, checked)
  \/ \E layer \in PadDataLayers, level \in PadDataLevels : PadData(layer, level)
  \/ \E layer \in PadDataLayers, level \in PadDataLevels : PadEvictCache(layer, level)
  \/ \E layer \in PadLayers, face \in PadFaces, level \in PadLevels :
       PadPlacement(layer, face, level)
  \/ PadDestroy

PkgSpec == PkgInit /\ [][PkgNext]_vars


----------------------------------------------------------------------------
(* Claims about PackagedAssetData and about the three variants *)

PadLive == pad.status = "live"

\* the last two calls addressed the same blob, the earlier one being op
FollowsOnSameBlob(op) == padLast.prev.op = op /\ padLast.prev.blobIdx = padLast.blobIdx

\* C14: a blob index is a key of the cache exactly when data() has read the blob from the
\* package since the last evictCache of that index (or since construction); an evicted blob
\* has no entry, and a blob is read at most once between two evictions.
CacheHoldsBlobsReadSinceEviction ==
  PadLive =>
    /\ pad.cache = pad.fresh
    /\ pad.readCount <= 1
    /\ padLast.op = "evictCache" => padLast.blobIdx \notin pad.cache
    /\ (padLast.op = "data" /\ padLast.blobIdx \in padLast.cacheBefore) => ~padLast.read

CacheHoldsBlobsReadSinceEvictionWitness ==
  /\ PadLive
  /\ padLast.op = "data"
  /\ padLast.read
  /\ FollowsOnSameBlob("evictCache")
  /\ padLast.blobIdx \in pad.cache
  /\ Cardinality(pad.cache) >= 2

\* C15: evictCache removes the entry of the blob index derived from (layer, level) and no
\* other; a second evictCache in a row leaves the cache unchanged; a data() call that
\* follows reads the blob from the package again and returns its bytes.
EvictCacheRemovesOneEntry ==
  PadLive =>
    /\ padLast.op = "evictCache" =>
         /\ pad.cache = padLast.cacheBefore \ {padLast.blobIdx}
         /\ FollowsOnSameBlob("evictCache") => pad.cache = padLast.cacheBefore
    /\ ( /\ padLast.op = "data"
         /\ FollowsOnSameBlob("evictCache")
         /\ padLast.blobIdx \in PresentBlobs \ CompressedBlobs ) =>
         /\ padLast.read
         /\ padLast.result = BlobBytes(padLast.blobIdx)
         /\ pad.cache = padLast.cacheBefore \cup {padLast.blobIdx}

EvictCacheRemovesOneEntryWitness ==
  /\ PadLive
  /\ padLast.op = "evictCache"
  /\ FollowsOnSameBlob("evictCache")
  /\ padLast.blobIdx \in PresentBlobs \ CompressedBlobs
  /\ pad.cache # {}

\* C16: data() on a cache miss raises an error for a blob whose descriptor marks it
\* compressed, without reading it from the package, and returns null for a blob without
\* descriptor; in both cases the cache stays as it was.
CompressedOrMissingBlobFails ==
  (PadLive /\ padLast.op = "data" /\ padLast.blobIdx \notin padLast.cacheBefore) =>
    /\ padLast.blobIdx \in PresentBlobs \cap CompressedBlobs =>
         /\ padLast.result = <<"throw">>
         /\ ~padLast.read
         /\ pad.cache = padLast.cacheBefore
    /\ padLast.blobIdx \notin PresentBlobs =>
         /\ padLast.result = <<"null">>
         /\ ~padLast.read
         /\ pad.cache = padLast.cacheBefore

CompressedOrMissingBlobFailsWitness ==
  /\ PadLive
  /\ padLast.op = "data"
  /\ padLast.result = <<"throw">>
  /\ padLast.blobIdx \in CompressedBlobs
  /\ pad.cache # {}
  /\ pad.cache = padLast.cacheBefore

\* C17: when opening an asset's file fails because the process is out of file handles,
\* the failure is raised to the caller: the header parse inside findAsset raises, a load
\* raises, and the first data() call of a memory-mapped instance raises instead of
\* returning null.
HandleExhaustionIsRaised ==
  /\ ( /\ Found /\ EndsWithDds(lastOp.filename) /\ lastOp.usePartial
       /\ LooseFile[lastOp.loose].fopen = "emfile" ) => lastOp.result = "throw"
  /\ (ddsLast.op = "load" /\ ddsLast.os = "emfile") => ddsLast.result = "throw"
  /\ (ddsLast.op = "data" /\ ddsLast.opened /\ ddsLast.os = "emfile") =>
       ddsLast.result = "throw"

\* C18: for every asset object of the three variants, mininumLevelsToUpload <= mipLevels.
MinimumLevelsWithinMipLevels ==
  /\ PadLive => pad.info.mininumLevelsToUpload <= pad.info.mipLevels
  /\ \A i \in Instances :
       dds[i].status = "loaded" =>
         DdsInfo(MappedFields(dds[i].file)).mininumLevelsToUpload
           <= DdsInfo(MappedFields(dds[i].file)).mipLevels
  /\ \A levels \in 1..MaxLevels :
       GliInfo(levels).mininumLevelsToUpload <= GliInfo(levels).mipLevels

\* C19: no operation on one instance makes an operation on another fail: a load of a
\* well-formed file the OS can open succeeds, and data() for a valid region returns a
\* pointer unless the OS itself refuses a handle, a mapping or a view, also while another
\* instance has the same file open.
InstancesAreIndependent ==
  /\ ( /\ ddsLast.op = "load"
       /\ ddsLast.os # "emfile"
       /\ LoadTable[dds[ddsLast.inst].file]["ok"].ret = "true" ) => ddsLast.result = "true"
  /\ ( /\ ddsLast.op = "data"
       /\ ~ComputedRegionExceeds(ddsLast.before.file, ddsLast.layer, ddsLast.level)
       /\ ddsLast.os \notin {"emfile", "mapfail", "viewfail"} ) => ddsLast.result = "ptr"

\* C20: for a non-cube image, getBlobIndex yields the tail blob index for every level
\* >= numMips - numTailMips whatever the layer, and level + baseBlobIdx +
\* layer * (numMips - numTailMips) for every level below.
TailLevelsShareTheTailBlob ==
  (PadLive /\ padLast.op = "placement" /\ AssetDescs[pad.asset].type = "IMAGE_2D") =>
    LET desc         == AssetDescs[pad.asset]
        numLooseMips == desc.numMips - desc.numTailMips
    IN  /\ padLast.level >= numLooseMips => padLast.blobIdx = desc.tailBlobIdx
        /\ padLast.level < numLooseMips =>
             padLast.blobIdx = padLast.level + desc.baseBlobIdx + padLast.layer * numLooseMips

----------------------------------------------------------------------------
(* Claims about the relative path findAsset hands to an archive *)

\* the part of the requested file's normalized absolute path that follows a base directory
RemainderAfter(filename, base) == Substr(FilenameLower(filename), Len(base))

\* C21: on a strict prefix match, the relative path handed to the archive is the part of
\* the requested file's path that follows the matched base directory (compared without
\* regard to case and separator spelling), whatever the spelling of the filename
\* argument, and computing it does not fail.
RelativePathFollowsBase ==
  (lastOp.op = "findAsset" /\ lastOp.archiveReached) =>
    /\ lastOp.result # "throw"
    /\ \A i \in 1..Len(lastOp.queried) :
         ToLowerStr(MakePreferred(lastOp.queried[i].relativePath))
           = RemainderAfter(lastOp.filename, lastOp.queried[i].base)

----------------------------------------------------------------------------
(* DdsTextureData::data entered by several threads on one instance.          *)
(* The instance was loaded from the well-formed array file; each statement   *)
(* of the open sequence is a step of its own, so that the threads interleave *)
(* between the test of m_hFile and the three stores.                         *)

RaceFile == "a"

\* the file opened with sharing: a second open is never refused
ShareDeniedNever(handles) == FALSE

\* CreateFile(m_filename, GENERIC_READ, 0 /* dwShareMode */, ...) while a handle from an
\* earlier CreateFile on the file is open: the open is refused with a sharing violation
ShareDenied(handles) == \E h \in handles : h[1] = "file"

\* the caller's discipline: with serialized calls a thread enters only when no other is inside
MayEnter(t) ==
  /\ thr[t].pc = "idle"
  /\ serialized => \A u \in Threads : thr[u].pc = "idle"

\* return from data() with a result; the locals go out of scope
Returned(t, result, os) ==
  [thr EXCEPT ![t] = [ThreadIdle EXCEPT !.result = result, !.os = os, !.sawNull = thr[t].sawNull]]

\* lines 272-280: the placement, the region check and the test of m_hFile
ThreadEnter(t, layer, level) ==
  /\ MayEnter(t)
  /\ thr' = IF RegionExceedsFile(RaceFile, layer, level)
            THEN [thr EXCEPT ![t] = [ThreadIdle EXCEPT !.result = "null", !.os = "corrupted"]]
            ELSE IF shared.hFile = 0
            THEN [thr EXCEPT ![t] = [ThreadIdle EXCEPT !.pc = "CreateFile", !.sawNull = TRUE]]
            ELSE [thr EXCEPT ![t] = [ThreadIdle EXCEPT !.pc = "return"]]
  /\ UNCHANGED <<shared, openHandles, overwritten, serialized>>
  /\ UNCHANGED <<mgrVars, parserVars, instVars, toneVars, replVars>>

\* lines 281-283: CreateFile hands out a handle
ThreadCreateFileOk(t) ==
  /\ thr[t].pc = "CreateFile"
  /\ ~ShareDenied(openHandles)
  /\ thr' = [thr EXCEPT ![t].pc = "CreateFileMapping", ![t].hFile = TRUE]
  /\ openHandles' = openHandles \cup {<<"file", t>>}
  /\ UNCHANGED <<shared, overwritten, serialized>>
  /\ UNCHANGED <<mgrVars, parserVars, instVars, toneVars, replVars>>

\* lines 284-287: CreateFile returns INVALID_HANDLE_VALUE; the process is out of handles, or
\* the file is open without sharing
ThreadCreateFileFail(t, why) ==
  /\ thr[t].pc = "CreateFile"
  /\ why = "sharing" <=> ShareDenied(openHandles)
  /\ thr' = Returned(t, "null", why)
  /\ UNCHANGED <<shared, openHandles, overwritten, serialized>>
  /\ UNCHANGED <<mgrVars, parserVars, instVars, toneVars, replVars>>

\* lines 290-296: CreateFileMapping, and CloseHandle(hFile) when it fails
ThreadCreateFileMapping(t, ok) ==
  /\ thr[t].pc = "CreateFileMapping"
  /\ IF ok
     THEN /\ thr' = [thr EXCEPT ![t].pc = "MapViewOfFile", ![t].hMapping = TRUE]
          /\ openHandles' = openHandles \cup {<<"mapping", t>>}
     ELSE /\ thr' = Returned(t, "null", "mapfail")
          /\ openHandles' = openHandles \ {<<"file", t>>}
  /\ UNCHANGED <<shared, overwritten, serialized>>
  /\ UNCHANGED <<mgrVars, parserVars, instVars, toneVars, replVars>>

\* lines 298-305: MapViewOfFile, and CloseHandle of both handles when it fails
ThreadMapViewOfFile(t, ok) ==
  /\ thr[t].pc = "MapViewOfFile"
  /\ IF ok
     THEN /\ thr' = [thr EXCEPT ![t].pc = "storeFile", ![t].view = TRUE]
          /\ openHandles' = openHandles \cup {<<"view", t>>}
     ELSE /\ thr' = Returned(t, "null", "viewfail")
          /\ openHandles' = openHandles \ {<<"file", t>>, <<"mapping", t>>}
  /\ UNCHANGED <<shared, overwritten, serialized>>
  /\ UNCHANGED <<mgrVars, parserVars, instVars, toneVars, replVars>>

\* line 307: m_hFile = hFile
ThreadStoreFile(t) ==
  /\ thr[t].pc = "storeFile"
  /\ overwritten' = (overwritten \/ shared.hFile # 0)
  /\ shared' = [shared EXCEPT !.hFile = t]
  /\ thr' = [thr EXCEPT ![t].pc = "storeMapping"]
  /\ UNCHANGED <<openHandles, serialized>>
  /\ UNCHANGED <<mgrVars, parserVars, instVars, toneVars, replVars>>

\* line 308: m_hMapping = hMapping
ThreadStoreMapping(t) ==
  /\ thr[t].pc = "storeMapping"
  /\ overwritten' = (overwritten \/ shared.hMapping # 0)
  /\ shared' = [shared EXCEPT !.hMapping = t]
  /\ thr' = [thr EXCEPT ![t].pc = "storeView"]
  /\ UNCHANGED <<openHandles, serialized>>
  /\ UNCHANGED <<mgrVars, parserVars, instVars, toneVars, replVars>>

\* line 309: m_lpBaseAddress = lpBaseAddress
ThreadStoreView(t) ==
  /\ thr[t].pc = "storeView"
  /\ overwritten' = (overwritten \/ shared.view # 0)
  /\ shared' = [shared EXCEPT !.view = t]
  /\ thr' = [thr EXCEPT ![t].pc = "return"]
  /\ UNCHANGED <<openHandles, serialized>>
  /\ UNCHANGED <<mgrVars, parserVars, instVars, toneVars, replVars>>

\* line 312: return m_lpBaseAddress + dataOffset, with the base address the thread reads
ThreadReturn(t) ==
  /\ thr[t].pc = "return"
  /\ thr' = Returned(t, IF shared.view = 0 THEN "nullbase" ELSE "ptr", "ok")
  /\ UNCHANGED <<shared, openHandles, overwritten, serialized>>
  /\ UNCHANGED <<mgrVars, parserVars, instVars, toneVars, replVars>>

\* releaseSource() by a thread while no thread is inside data(): unmaps and closes what
\* the three fields hold
RaceReleaseSource(t) ==
  /\ \A u \in Threads : thr[u].pc = "idle"
  /\ IF shared.hFile # 0
     THEN /\ openHandles' = openHandles \ {<<"view", shared.view>>, <<"mapping", shared.hMapping>>,
                                            <<"file", shared.hFile>>}
          /\ shared' = NoShared
     ELSE UNCHANGED <<shared, openHandles>>
  /\ thr' = [u \in Threads |-> [ThreadIdle EXCEPT !.result = IF u = t THEN "released" ELSE "none"]]
  /\ UNCHANGED <<overwritten, serialized>>
  /\ UNCHANGED <<mgrVars, parserVars, instVars, toneVars, replVars>>

RaceInit ==
  /\ searchPaths = << >>
  /\ packageSets = << >>
  /\ addLog = << >>
  /\ scanLog = [d \in {DirM, DirMA} |-> 0]
  /\ rtxIo = TRUE
  /\ pkgAssets = [a \in ValidArchives |-> {}]
  /\ lastOp = [op |-> "none"]
  /\ parser = NewParser
  /\ placed = NotPlaced
  /\ InstIdle
  /\ ToneIdle
  /\ ReplIdle
  /\ thr = [t \in Threads |-> ThreadIdle]
  /\ shared = NoShared
  /\ openHandles = {}
  /\ overwritten = FALSE
  /\ serialized \in BOOLEAN

RaceNext ==
  \/ \E t \in Threads, layer \in ProbeLayers, level \in 0..1 : ThreadEnter(t, layer, level)
  \/ \E t \in Threads : ThreadCreateFileOk(t)
  \/ \E t \in Threads, why \in {"emfile", "sharing"} : ThreadCreateFileFail(t, why)
  \/ \E t \in Threads, ok \in BOOLEAN : ThreadCreateFileMapping(t, ok)
  \/ \E t \in Threads, ok \in BOOLEAN : ThreadMapViewOfFile(t, ok)
  \/ \E t \in Threads : ThreadStoreFile(t)
  \/ \E t \in Threads : ThreadStoreMapping(t)
  \/ \E t \in Threads : ThreadStoreView(t)
  \/ \E t \in Threads : ThreadReturn(t)
  \/ \E t \in Threads : RaceReleaseSource(t)

RaceSpec == RaceInit /\ [][RaceNext]_vars

----------------------------------------------------------------------------
(* Claims about concurrent first calls of data() *)

AllIdle == \A t \in Threads : thr[t].pc = "idle"

\* the handles the three fields of the instance account for
StoredHandles ==
  {h \in {<<"file", shared.hFile>>, <<"mapping", shared.hMapping>>, <<"view", shared.view>>} :
     h[2] # 0}

----------------------------------------------------------------------------
(* Claims about the normalization of search paths *)

ToUpperStr(s) == [i \in 1..Len(s) |-> IF IsLower(s[i]) THEN UpperSeq[AlphaIdx(s[i])] ELSE s[i]]

DropTrailingSep(s) == IF s # <<>> /\ IsSep(s[Len(s)]) THEN SubSeq(s, 1, Len(s) - 1) ELSE s

\* spellings of the directory a key names that differ from the key in case or in the
\* trailing separator only
Spellings(key) ==
  {key, DropTrailingSep(key), ToUpperStr(key), ToUpperStr(DropTrailingSep(key))}

\* C23: the normalization of addSearchPath is idempotent: the key it computes is left
\* unchanged by a second normalization, and every spelling of the same directory that
\* differs in case or in the trailing separator only normalizes to the same key.
NormalizePathIdempotent ==
  lastOp.op = "addSearchPath" =>
    \A q \in Spellings(lastOp.normalized) : NormalizePath(q) = lastOp.normalized

\* addSearchPath registered c:\m\a\ : it was called with "C:\m/A", which differs from its key
\* in case, in a separator and in the trailing separator
NormalizePathIdempotentWitness ==
  /\ lastOp.op = "addSearchPath"
  /\ lastOp.added
  /\ lastOp.normalized = DirMA
  /\ Cardinality(Spellings(lastOp.normalized)) = 4

----------------------------------------------------------------------------
(* The two registries of AssetDataManager under addSearchPath alone *)

\* a search path that names a file of the mounted directory
FilePath == <<"c", ":", "\\", "m", "\\", "r", ".", "t", "x", "t">>

\* the spellings addSearchPath is called with: directories, a directory that does not
\* exist, and a file
RegPathInputs == SearchPathInputs \cup {FilePath}

RegNext == \E priority \in Priorities, path \in RegPathInputs : AddSearchPath(priority, path)

RegSpec == Init /\ [][RegNext]_vars

\* addSearchPath called at the lowest priority only: the keys do not depend on the priority
NormNext == \E path \in RegPathInputs : AddSearchPath(1, path)

NormSpec == Init /\ [][NormNext]_vars

\* the normalized paths of the package-set entries of one priority, in order
PackageSetPaths(pr) == [i \in 1..Len(packageSets[pr]) |-> packageSets[pr][i].path]

\* C26: with archive mounting enabled (the package-set registry is filled in no other
\* case), after any sequence of addSearchPath calls the package-set registry lists, for
\* every priority, the same normalized paths in the same order as the search-path
\* registry, one entry per search path.
RegistriesParallel ==
  rtxIo =>
    /\ DOMAIN packageSets = DOMAIN searchPaths
    /\ \A pr \in DOMAIN searchPaths : PackageSetPaths(pr) = searchPaths[pr]

----------------------------------------------------------------------------
(* Further claims about DdsTextureData *)

\* C24: placement and evictCache leave m_hFile, m_hMapping, the mapped view and the handles
\* held as they were, and placement returns the offset and size that follow from the
\* parsed file whatever the state of the mapping (never opened, open, released).
PlacementAndEvictNeedNoMapping ==
  ddsLast.op \in {"placement", "evictCache"} =>
    /\ dds[ddsLast.inst] = ddsLast.before
    /\ osCount[ddsLast.inst] = ddsLast.cntBefore
    /\ ddsLast.op = "placement" =>
         ddsLast.placement = Placement(MappedFields(ddsLast.before.file), ddsLast.layer, 0, ddsLast.level)

\* placement of a level past the first on an instance whose mapping was open and has just
\* been released
PlacementAndEvictNeedNoMappingWitness ==
  /\ ddsLast.op = "placement"
  /\ ddsLast.level > 0
  /\ ddsLast.prev.op = "releaseSource"
  /\ ddsLast.prev.held
  /\ ~ddsLast.before.hFile
  /\ ddsLast.cntBefore = NoHandles


\* C27: when the open sequence of data() fails at CreateFile, CreateFileMapping or
\* MapViewOfFile, the handles acquired earlier in the call are closed before null is
\* returned and the three fields stay null: the instance holds what it held before, and
\* the next data() for a valid region runs the open sequence again.
FailedOpenLeavesInstanceUnopened ==
  /\ (ddsLast.op = "data" /\ ddsLast.opened /\ ddsLast.result = "null") =>
       /\ dds[ddsLast.inst] = ddsLast.before
       /\ ~LastInst.hFile /\ ~LastInst.hMapping /\ ~LastInst.view
       /\ osCount[ddsLast.inst] = ddsLast.cntBefore
       /\ osCount[ddsLast.inst] = NoHandles
  /\ ( /\ ddsLast.op = "data"
       /\ ddsLast.prev.op = "data" /\ ddsLast.prev.opened /\ ddsLast.prev.result = "null"
       /\ ~ComputedRegionExceeds(ddsLast.before.file, ddsLast.layer, ddsLast.level) ) =>
       ddsLast.opened

\* a data() call that failed at MapViewOfFile, made right after a data() call on the same
\* instance whose open sequence had failed too
FailedOpenLeavesInstanceUnopenedWitness ==
  /\ ddsLast.op = "data"
  /\ ddsLast.os = "viewfail"
  /\ ddsLast.result = "null"
  /\ ddsLast.prev.op = "data" /\ ddsLast.prev.opened /\ ddsLast.prev.result = "null"

----------------------------------------------------------------------------
(* Further claims about DdsFileParser *)

\* C25: parse on a header that declares more than 16 mip levels stores no level size at
\* index 16 or above of m_levelSizes: the guard stops it before the loop writes there,
\* and the parse does not go on with the level list.
LevelSizesStayInArray ==
  parser.status \in {"abort", "overrun"} =>
    /\ \A level \in parser.stored : level < MaxLevels
    /\ parser.status = "abort"

----------------------------------------------------------------------------
(* AssetReplacer: the calls it makes on the mods of its mod manager.          *)
(* ModManager::refreshMods rescans the mods directory: the list it leaves is  *)
(* any list of mods.  Mod::load leaves a mod loading or loaded.               *)

ModIds == {1, 2, 3}

\* the lists m_modManager.mods() may hold: up to two of the three mods, in any order
ModLists ==
  {<< >>} \cup {<<m>> : m \in ModIds}
          \cup {p \in ModIds \X ModIds : p[1] # p[2]}

\* Mod::State() as value-initialized by std::vector<Mod::State>(n)
DefaultState == "Unloaded"

\* one call per mod of the list, in list order: for (auto& mod : m_modManager.mods())
Calls(name, mods) == [i \in 1..Len(mods) |-> [call |-> name, mod |-> mods[i]]]

Call(name) == [call |-> name, mod |-> 0]

\* unload and clear done mod by mod in one loop
UnloadAndClearEach(mods) ==
  Flatten([i \in 1..Len(mods) |->
             << [call |-> "unload", mod |-> mods[i]], [call |-> "clear", mod |-> mods[i]] >>])

\* steps 2 and 3: the loop of unload() calls, then the loop of replacements().clear() calls
UnloadThenClear(mods) == Calls("unload", mods) \o Calls("clear", mods)

\* the calls of refreshModsAndReloadStage on the mods before and after the refresh
RefreshCalls(mods, newMods) ==
  << Call("flushCommandList"), Call("waitForIdle") >>
    \o UnloadThenClear(mods)
    \o << Call("refreshMods") >>
    \o Calls("load", newMods)
    \o << Call("updateSecretReplacements") >>

\* the state load() leaves each mod of the list in
LoadedStates(mods, loaded) ==
  [i \in 1..Len(mods) |-> IF mods[i] \in loaded THEN "Loaded" ELSE "Loading"]

\* getReplacementStates: std::vector<Mod::State> modStates(mods.size()) holds mods.size()
\* value-initialized states, then one emplace_back(mod->state()) per mod appends to them
ReplacementStates(states) == [i \in 1..Len(states) |-> DefaultState] \o states

\* the record of a call on the AssetReplacer
ReplCall(op, result) ==
  [op |-> op, result |-> result, modsBefore |-> replacer.mods, statesBefore |-> replacer.states]

\* initialize(context)
ReplInitialize(loaded) ==
  /\ replacer.status = "live"
  /\ replLog' = Calls("load", replacer.mods) \o << Call("updateSecretReplacements") >>
  /\ replacer' = [replacer EXCEPT !.states = LoadedStates(replacer.mods, loaded),
                                  !.last = ReplCall("initialize", << >>)]
  /\ UNCHANGED <<mgrVars, parserVars, instVars, raceVars, toneVars>>

\* refreshModsAndReloadStage(context).  With a null context line 289 dereferences it before
\* any mod is touched
RefreshModsAndReloadStage(contextOk, newMods, loaded) ==
  /\ replacer.status = "live"
  /\ IF contextOk
     THEN /\ replLog' = RefreshCalls(replacer.mods, newMods)
          /\ replacer' = [replacer EXCEPT !.mods = newMods,
                                          !.states = LoadedStates(newMods, loaded),
                                          !.last = ReplCall("refreshModsAndReloadStage", << >>)]
     ELSE /\ replLog' = << >>
          /\ replacer' = [replacer EXCEPT !.status = "crashed",
                                          !.last = ReplCall("refreshModsAndReloadStage", << >>)]
  /\ UNCHANGED <<mgrVars, parserVars, instVars, raceVars, toneVars>>

\* getReplacementStates()
GetReplacementStates ==
  /\ replacer.status = "live"
  /\ replLog' = << >>
  /\ replacer' = [replacer EXCEPT
                    !.last = ReplCall("getReplacementStates", ReplacementStates(replacer.states))]
  /\ UNCHANGED <<mgrVars, parserVars, instVars, raceVars, toneVars>>

ReplInit ==
  /\ searchPaths = << >>
  /\ packageSets = << >>
  /\ addLog = << >>
  /\ scanLog = [d \in {DirM, DirMA} |-> 0]
  /\ rtxIo = TRUE
  /\ pkgAssets = [a \in ValidArchives |-> {}]
  /\ lastOp = [op |-> "none"]
  /\ parser = NewParser
  /\ placed = NotPlaced
  /\ InstIdle
  /\ RaceIdle
  /\ ToneIdle
  /\ replLog = << >>
  /\ \E mods \in ModLists :
       replacer = [status |-> "live", mods |-> mods,
                   states |-> [i \in 1..Len(mods) |-> "Unloaded"],
                   last |-> [op |-> "none", result |-> << >>, modsBefore |-> mods,
                             statesBefore |-> [i \in 1..Len(mods) |-> "Unloaded"]]]

ReplNext ==
  \/ \E loaded \in SUBSET ModIds : ReplInitialize(loaded)
  \/ \E contextOk \in BOOLEAN, newMods \in ModLists, loaded \in SUBSET ModIds :
       RefreshModsAndReloadStage(contextOk, newMods, loaded)
  \/ GetReplacementStates

ReplSpec == ReplInit /\ [][ReplNext]_vars

----------------------------------------------------------------------------
(* Claims about AssetReplacer *)

CallsNamed(name) == SelectSeq(replLog, LAMBDA c : c.call = name)

ModsOf(calls) == [i \in 1..Len(calls) |-> calls[i].mod]

Refreshed == replacer.status = "live" /\ replacer.last.op = "refreshModsAndReloadStage"

\* every call named first comes before every call named second
AllBefore(first, second) ==
  \A i, j \in 1..Len(replLog) :
    (replLog[i].call = first /\ replLog[j].call = second) => i < j

\* C29: refreshModsAndReloadStage unloads every current mod before it clears any mod's
\* replacements, clears all before it refreshes the mod directory, calls load only after
\* the refresh and on every mod of the refreshed list, and runs updateSecretReplacements
\* once, after all loads.
RefreshStepsInOrder ==
  Refreshed =>
    /\ ModsOf(CallsNamed("unload")) = replacer.last.modsBefore
    /\ ModsOf(CallsNamed("clear")) = replacer.last.modsBefore
    /\ AllBefore("unload", "clear")
    /\ Len(CallsNamed("refreshMods")) = 1
    /\ AllBefore("clear", "refreshMods")
    /\ AllBefore("unload", "refreshMods")
    /\ AllBefore("refreshMods", "load")
    /\ ModsOf(CallsNamed("load")) = replacer.mods
    /\ Len(CallsNamed("updateSecretReplacements")) = 1
    /\ replLog[Len(replLog)].call = "updateSecretReplacements"

\* a refresh that found two mods registered and left a different list of two mods
RefreshStepsInOrderWitness ==
  /\ Refreshed
  /\ Len(replacer.last.modsBefore) = 2
  /\ Len(replacer.mods) = 2
  /\ replacer.mods # replacer.last.modsBefore

\* C30: getReplacementStates returns one state per registered mod, in mod order: as many
\* elements as there are mods, element i being the state of mod i.
OneStatePerMod ==
  (replacer.status = "live" /\ replacer.last.op = "getReplacementStates") =>
    /\ Len(replacer.last.result) = Len(replacer.mods)
    /\ \A i \in 1..Len(replacer.mods) : replacer.last.result[i] = replacer.states[i]

----------------------------------------------------------------------------
(* DxvkToneMapping::dispatch *)

\* how many dispatches a requested reset is followed for
MaxPendingFrames == 4

\* dispatchHistogram: clears the histogram when m_resetState is set
HistogramPass(resetState, autoExposureEnabled) ==
  [pass |-> "histogram", cleared |-> resetState, needsReset |-> FALSE,
   autoExposure |-> autoExposureEnabled, srgb |-> FALSE]

\* dispatchToneCurve: pushArgs.needsReset = m_resetState
ToneCurvePass(resetState) ==
  [pass |-> "toneCurve", cleared |-> FALSE, needsReset |-> resetState,
   autoExposure |-> FALSE, srgb |-> FALSE]

\* dispatchApplyToneMapping and dispatchHDRProcessing
OutputPass(name, performSRGBConversion, autoExposureEnabled) ==
  [pass |-> name, cleared |-> FALSE, needsReset |-> FALSE,
   autoExposure |-> autoExposureEnabled, srgb |-> performSRGBConversion]

\* the passes one dispatch runs, by enableHDR() and tonemappingEnabled()
DispatchPasses(resetState, hdr, enabled, performSRGBConversion, autoExposureEnabled) ==
  IF hdr THEN << OutputPass("hdrProcessing", FALSE, autoExposureEnabled) >>
  ELSE (IF enabled
        THEN << HistogramPass(resetState, autoExposureEnabled), ToneCurvePass(resetState) >>
        ELSE << >>)
       \o << OutputPass("applyToneMapping", performSRGBConversion, autoExposureEnabled) >>

\* dispatch(..., performSRGBConversion, resetHistory, autoExposureEnabled) under the options
\* enableHDR() = hdr and tonemappingEnabled() = enabled.
\* pendingFrames counts the dispatches since a reset was requested or forced that ran no
\* histogram and tone-curve pass (0: none is pending)
Dispatch(resetHistory, hdr, enabled, performSRGBConversion, autoExposureEnabled) ==
  /\ tone.status = "live"
  /\ LET create     == ~tone.hasResources
         resetState == tone.resetState \/ resetHistory \/ create
         passes     == DispatchPasses(resetState, hdr, enabled, performSRGBConversion,
                                      autoExposureEnabled)
         ranCurve   == ~hdr /\ enabled
         wanted     == tone.pendingFrames > 0 \/ resetHistory \/ create
     IN  /\ toneLast' = [op |-> "dispatch", resetHistory |-> resetHistory, hdr |-> hdr,
                         enabled |-> enabled, created |-> create, passes |-> passes,
                         pendingBefore |-> tone.pendingFrames]
         /\ tone' = [tone EXCEPT
                       !.hasResources = TRUE,
                       !.resetState = FALSE,
                       !.pendingFrames = IF ranCurve \/ ~wanted THEN 0
                                         ELSE IF @ < MaxPendingFrames THEN @ + 1 ELSE @]
  /\ UNCHANGED <<mgrVars, parserVars, instVars, raceVars, replVars>>

ToneInit ==
  /\ searchPaths = << >>
  /\ packageSets = << >>
  /\ addLog = << >>
  /\ scanLog = [d \in {DirM, DirMA} |-> 0]
  /\ rtxIo = TRUE
  /\ pkgAssets = [a \in ValidArchives |-> {}]
  /\ lastOp = [op |-> "none"]
  /\ parser = NewParser
  /\ placed = NotPlaced
  /\ InstIdle
  /\ RaceIdle
  /\ ReplIdle
  /\ \E r \in BOOLEAN :
       tone = [status |-> "live", hasResources |-> FALSE, resetState |-> r, pendingFrames |-> 0]
  /\ toneLast = [op |-> "none"]

ToneNext ==
  \E resetHistory, hdr, enabled, performSRGBConversion, autoExposureEnabled \in BOOLEAN :
    Dispatch(resetHistory, hdr, enabled, performSRGBConversion, autoExposureEnabled)

ToneSpec == ToneInit /\ [][ToneNext]_vars

----------------------------------------------------------------------------
(* Claims about DxvkToneMapping *)

\* C28: a history reset, requested with resetHistory or forced by resource creation, is
\* applied by the first dispatch that runs the histogram and tone-curve passes: that
\* dispatch clears the histogram and hands needsReset to the tone-curve pass, also when
\* dispatches in HDR mode or with tonemapping disabled came in between.
PendingResetIsApplied ==
  ( /\ toneLast.op = "dispatch"
    /\ ~toneLast.hdr /\ toneLast.enabled
    /\ (toneLast.pendingBefore > 0 \/ toneLast.resetHistory \/ toneLast.created) ) =>
    /\ toneLast.passes[1].pass = "histogram" /\ toneLast.passes[1].cleared
    /\ toneLast.passes[2].pass = "toneCurve" /\ toneLast.passes[2].needsReset

====
